---- MODULE Spec2Model ----
(***************************************************************************)
(* Model of the Actio Solana adapter: the ModalService single-waiter state *)
(* machine (adapter/services/modal.ts over the ActioModal element of       *)
(* ui/actio.ts), the SessionService validation pipeline                    *)
(* (adapter/services/session.ts), the operations of ActioWalletAdapter     *)
(* (connect, signTransaction, disconnect) over them, and the modal flow of *)
(* ActioCore.openModal (adapter/core.ts).                                  *)
(***************************************************************************)
EXTENDS Integers, Sequences, FiniteSets, TLC

\* ------------------------------------------------------------------------
\* Bounds
\* ------------------------------------------------------------------------

\* number of show() calls (promises created) in one behaviour
MaxShows == 3

\* validateSession calls that may be awaiting the validator at once
MaxValidating == 1

\* the clock runs up to MaxDays session durations plus MaxMs milliseconds
MaxDays == 1

MaxMs == 1

\* adapter operations (connect, signTransaction) in flight at once
MaxFlows == 2

\* show() calls made by adapter and core operations in one behaviour
MaxAdapterShows == 2

\* statuses one flow reads from the status stream
MaxStatuses == 2

\* fragments in the message of an error the SDK client throws
MaxFragments == 2

\* ------------------------------------------------------------------------
\* Values
\* ------------------------------------------------------------------------

\* `null` of a field that otherwise holds an object
Null == [null |-> TRUE]

\* ModalScreen
Screens == {"input", "loading", "error", "success"}

\* what the user may type into the input screen
RawCodes == {"", " ", "c1", "c2"}

\* String.prototype.trim on these values
trim(s) == IF s = " " THEN "" ELSE s

\* String.prototype.includes
includes(s, sub) ==
  \E i \in 1..(Len(s) - Len(sub) + 1) : SubSeq(s, i, i + Len(sub) - 1) = sub

VARIABLES
  modalService,  \* the ModalService object: modal, currentPromise, and the
                 \* promises show() has returned so far (promises[i] is the
                 \* promise of the i-th show() call), keydown listener
  hist,          \* the last operation on the modal service, its argument
                 \* and the modal service before it
  localStorage,  \* the item stored under storageKey, or Null
  now,           \* Date.now(), in milliseconds since the page was loaded
  validating,    \* the signed transactions of the validateSession calls
                 \* that await the SDK validator
  ret,           \* the last step of a session operation: the call's origin,
                 \* the session it read and when, the checks it ran, the
                 \* validator's answer, and what the call returned
  adapter,       \* the ActioWalletAdapter object: _publicKey, _connecting,
                 \* and the hide timers it has set that have not fired
  flows,         \* the adapter operations in flight: for each, the await
                 \* it is suspended at and its local variables
  out,           \* the last step of an adapter operation: how it ended,
                 \* the events it emitted, whether it called submitAction
  service        \* the last call of an ActionCodesService method: its
                 \* argument, what the SDK client answered, how it ended

\* ------------------------------------------------------------------------
\* ActioModal (ui/actio.ts)
\* ------------------------------------------------------------------------

\* a freshly created <actio-modal>: hidden, on the input screen
NewActioModal == [visible |-> FALSE, screen |-> "input"]

setVisible(ms, v) == [ms EXCEPT !.modal.visible = v]

setScreen(ms, s) == [ms EXCEPT !.modal.screen = s]

ActioModal_showLoading(ms) == setScreen(ms, "loading")

ActioModal_showError(ms) == setScreen(ms, "error")

ActioModal_showSuccess(ms) == setScreen(ms, "success")

\* a reset() of the element that also opens it
ActioModal_reset_Opens(ms) == setVisible(setScreen(ms, "input"), TRUE)

ActioModal_reset(ms) == setScreen(ms, "input")

\* ------------------------------------------------------------------------
\* ModalService (adapter/services/modal.ts)
\* ------------------------------------------------------------------------

PendingPromise == [state |-> "pending", value |-> ""]

\* resolve/reject of a promise: only a pending promise changes
settle(ms, p, st, v) ==
  IF ms.promises[p].state = "pending"
  THEN [ms EXCEPT !.promises[p] = [state |-> st, value |-> v]]
  ELSE ms

getState(ms) ==
  IF ms.modal = Null THEN [visible |-> FALSE, screen |-> "input"]
  ELSE [visible |-> ms.modal.visible, screen |-> ms.modal.screen]

isAvailable(ms) == ms.modal # Null

hide(ms) == IF ms.modal # Null THEN setVisible(ms, FALSE) ELSE ms

reset(ms) == IF ms.modal # Null THEN ActioModal_reset(ms) ELSE ms

\* handleModalClose that forgets to clear the waiter slot and to reset
handleModalClose_KeepsSlot(ms, reason) ==
  IF ms.currentPromise # 0
  THEN hide(settle(ms, ms.currentPromise, "rejected",
                   "Modal closed: " \o reason))
  ELSE hide(ms)

handleModalClose(ms, reason) ==
  LET rejected ==
        IF ms.currentPromise # 0
        THEN [settle(ms, ms.currentPromise, "rejected",
                     "Modal closed: " \o reason)
                EXCEPT !.currentPromise = 0]
        ELSE ms
  IN  reset(hide(rejected))

show(ms) ==
  IF ms.modal = Null
  THEN \* async function: the throw rejects the returned promise
       [ms EXCEPT !.promises =
          Append(@, [state |-> "rejected", value |-> "Modal not initialized"])]
  ELSE LET shown ==
             IF ms.currentPromise = 0 /\ getState(ms).screen # "error"
             THEN setScreen(setVisible(reset(ms), TRUE), "input")
             ELSE IF ms.currentPromise = 0 /\ getState(ms).screen = "error"
                  THEN setVisible(ms, TRUE)
                  ELSE ms
       IN  [shown EXCEPT !.promises = Append(@, PendingPromise),
                         !.currentPromise = Len(ms.promises) + 1]

\* showLoading that completes the pending wait as a close does
showLoading_Rejects(ms) ==
  IF ms.modal # Null
  THEN ActioModal_showLoading(setVisible(
         IF ms.currentPromise # 0
         THEN [settle(ms, ms.currentPromise, "rejected", "Modal closed: loading")
                 EXCEPT !.currentPromise = 0]
         ELSE ms, TRUE))
  ELSE ms

showLoading(ms) ==
  IF ms.modal # Null THEN ActioModal_showLoading(setVisible(ms, TRUE)) ELSE ms

showError(ms) ==
  IF ms.modal = Null THEN ms ELSE ActioModal_showError(setVisible(ms, TRUE))

showSuccess(ms) ==
  IF ms.modal # Null THEN ActioModal_showSuccess(setVisible(ms, TRUE)) ELSE ms

forceClose(ms) == handleModalClose(ms, "force")

unmount(ms) ==
  IF ms.modal # Null THEN [forceClose(ms) EXCEPT !.modal = Null] ELSE ms

\* the code-submit listener
onCodeSubmit(ms, code) ==
  IF ms.currentPromise # 0 /\ code # ""
  THEN [settle(ms, ms.currentPromise, "resolved", code)
          EXCEPT !.currentPromise = 0]
  ELSE ms

\* ActioInputScreen._handleSubmit: a non-empty code goes to onSubmit, which
\* dispatches code-submit {code}
ActioInputScreen_handleSubmit(ms, code) ==
  IF code # "" THEN onCodeSubmit(ms, code) ELSE ms

\* a modal-retry listener that resolves the wait (the behaviour the
\* listener's comment rules out)
onModalRetry_Resolves(ms) ==
  IF ms.modal # Null
  THEN IF ms.currentPromise # 0
       THEN [settle(setScreen(ms, "input"), ms.currentPromise, "resolved", "")
               EXCEPT !.currentPromise = 0]
       ELSE setScreen(ms, "input")
  ELSE ms

\* the modal-retry listener
onModalRetry(ms) == IF ms.modal # Null THEN setScreen(ms, "input") ELSE ms

\* the modal-close listener
onModalClose(ms, reason) == handleModalClose(ms, reason)

\* the document keydown listener; the element's style.display is never
\* written by the modal or the service, so it is never "none"
styleDisplay(ms) == ""

onKeydown(ms, key) ==
  IF key = "Escape" /\ styleDisplay(ms) # "none"
  THEN handleModalClose(ms, "escape")
  ELSE ms

setupEventListeners(ms) ==
  IF ms.modal = Null THEN ms ELSE [ms EXCEPT !.keydown = TRUE]

init(ms) ==
  setupEventListeners([unmount(ms) EXCEPT !.modal = NewActioModal])

\* ------------------------------------------------------------------------
\* SessionService (adapter/services/session.ts)
\* ------------------------------------------------------------------------

sessionDurationMs == 86400000

Origins == {"site.com", "other.com"}

\* base58 addresses the action service may name
PublicKeys == {"Addr1", "Addr2"}

\* the signed payload the action service hands back: how its bytes decode
\* (base64 or not, legacy / versioned transaction or neither), the address
\* in its Actio memo ("none": no memo, "notAKey": not an address) and what
\* the SDK validator answers for it
Tx(enc, memo, valid) == [encoding |-> enc, memo |-> memo, valid |-> valid]

Payloads ==
  {Tx("notBase64", "none", FALSE), Tx("garbage", "none", FALSE),
   Tx("legacy", "none", FALSE), Tx("legacy", "Addr1", FALSE),
   Tx("legacy", "Addr1", TRUE), Tx("versioned", "Addr2", TRUE),
   Tx("legacy", "notAKey", TRUE)}

\* Date.prototype.toISOString and new Date(string): exact to the millisecond
toISOString(t) == [iso |-> t]

DateOf(str) == str.iso

\* JSON.stringify / JSON.parse of an ActioSession (three string fields)
JSONstringify(session) == [json |-> session]

JSONparse(stored) == stored.json

\* a store that writes nothing
storeSession_Dropped(session) == Null

\* storeSession: localStorage.setItem(key, JSON.stringify(session))
storeSession(session) == JSONstringify(session)

getStoredSession(storage) ==
  IF storage # Null THEN JSONparse(storage) ELSE Null

\* a clearSession that removes nothing
clearSession_Keeps(storage) == storage

\* the storage after clearSession()
clearSession(storage) == Null

Result(ok, key, err) == [isValid |-> ok, publicKey |-> key, error |-> err]

\* an expiry test with the comparison reversed
isExpired_Reversed(expiresAt, t) == expiresAt > t

\* line 120: expiresAt < now
isExpired(expiresAt, t) == expiresAt < t

\* an origin test that compares nothing
originMismatch_Ignored(stored, origin) == FALSE

\* line 126: session.origin !== origin
originMismatch(stored, origin) == stored # origin

\* steps 2 and 3 with the origin tested before the expiry
checkExpiryAndOrigin_OriginFirst(session, origin, t) ==
  IF originMismatch(session.origin, origin)
  THEN [ran |-> <<"origin">>, error |-> "Session origin mismatch"]
  ELSE IF isExpired(DateOf(session.expiresAt), t)
       THEN [ran |-> <<"origin", "expiry">>, error |-> "Session expired"]
       ELSE [ran |-> <<"origin", "expiry">>, error |-> ""]

\* steps 2 and 3 of validateSession: the checks run and the error, if any
checkExpiryAndOrigin(session, origin, t) ==
  IF isExpired(DateOf(session.expiresAt), t)
  THEN [ran |-> <<"expiry">>, error |-> "Session expired"]
  ELSE IF originMismatch(session.origin, origin)
       THEN [ran |-> <<"expiry", "origin">>, error |-> "Session origin mismatch"]
       ELSE [ran |-> <<"expiry", "origin">>, error |-> ""]

\* base64ToArrayBuffer, then Transaction.from, then
\* VersionedTransaction.deserialize
deserialize(signedTxBase64) ==
  IF signedTxBase64.encoding = "notBase64" THEN "throws"
  ELSE IF signedTxBase64.encoding \in {"legacy", "versioned"} THEN "ok"
       ELSE "invalid"

\* getActioMemo(signedTx): the memo's address, or Null
getActioMemo(signedTx) ==
  IF signedTx.memo = "none" THEN Null ELSE [int |-> signedTx.memo]

\* validateSession up to the await of the validator (lines 109-156):
\* either the call is done with a result, or it awaits the validator
validateSession_begin(storage, origin, t) ==
  LET session == getStoredSession(storage)
      Done(ran, res, st) ==
        [done |-> TRUE, ran |-> ran, result |-> res, storage |-> st]
  IN
  IF session = Null
  THEN Done(<<"exists">>, Result(FALSE, "", "No session found"), storage)
  ELSE
    LET cheap == checkExpiryAndOrigin(session, origin, t)
        ran3 == <<"exists">> \o cheap.ran
    IN
    IF cheap.error # ""
    THEN Done(ran3, Result(FALSE, "", cheap.error), clearSession(storage))
    ELSE
      LET tx == deserialize(session.signedTxBase64)
          ran4 == Append(ran3, "deserialize")
      IN
      IF tx = "throws"
      THEN Done(ran4,
                Result(FALSE, "",
                       "Session validation failed: " \o "InvalidCharacterError"),
                clearSession(storage))
      ELSE IF tx = "invalid"
      THEN Done(ran4, Result(FALSE, "", "Invalid transaction format"), storage)
      ELSE
        LET actioMemo == getActioMemo(session.signedTxBase64)
            ran5 == Append(ran4, "memo")
        IN
        IF actioMemo = Null
        THEN Done(ran5, Result(FALSE, "", "No memo found"), storage)
        ELSE [done |-> FALSE, ran |-> Append(ran5, "validate"),
              result |-> Result(FALSE, "", ""), storage |-> storage]

\* new PublicKey(value) throws unless value is an address
isPublicKey(value) == value \in PublicKeys

\* validateSession from the validator's answer on (lines 156-173);
\* answer is "true", "false" or "throws"
validateSession_resume(storage, signedTx, answer) ==
  IF answer = "throws"
  THEN [result |-> Result(FALSE, "",
                          "Session validation failed: " \o "validator error"),
        storage |-> clearSession(storage)]
  ELSE IF answer = "false"
  THEN [result |-> Result(FALSE, "", "Invalid transaction"),
        storage |-> clearSession(storage)]
  ELSE IF ~isPublicKey(getActioMemo(signedTx).int)
  THEN [result |-> Result(FALSE, "",
                          "Session validation failed: " \o "Invalid public key input"),
        storage |-> clearSession(storage)]
  ELSE [result |-> Result(TRUE, getActioMemo(signedTx).int, ""),
        storage |-> storage]

\* a test of the submission that looks at the payload only
submissionFailed_PayloadOnly(submitted) == submitted.result = Null

\* line 81: status !== "completed" || !result
submissionFailed(submitted) ==
  submitted.status # "completed" \/ submitted.result = Null

\* a createSession that removes the stored session before it asks for the
\* action
createSession_ClearsFirst(storage, code, origin, action, submitted, t) ==
  LET Fail(msg, submits) ==
        [ok |-> FALSE, publicKey |-> "",
         error |-> "Failed to create session: " \o msg,
         storage |-> clearSession(storage),
         getActions |-> 1, submitActions |-> submits]
  IN
  IF action = [throws |-> TRUE]
  THEN Fail("Invalid action code", 0)
  ELSE IF action.intendedFor = ""
  THEN Fail("Action missing intended recipient", 0)
  ELSE IF submitted = [throws |-> TRUE]
  THEN Fail("Failed to submit action", 1)
  ELSE IF submissionFailed(submitted)
  THEN Fail("Failed to create session", 1)
  ELSE [ok |-> TRUE, publicKey |-> action.intendedFor, error |-> "",
        getActions |-> 1, submitActions |-> 1,
        storage |-> storeSession(
          [signedTxBase64 |-> submitted.result,
           expiresAt |-> toISOString(t + sessionDurationMs),
           origin |-> origin])]

\* createSession (lines 48-103): the outcome, the storage and the number of
\* calls of getAction and submitAction it made. action is what getAction
\* answered and submitted what submitAction answered (each
\* [throws |-> TRUE] or the value returned), t the time of the store
createSession(storage, code, origin, action, submitted, t) ==
  LET Fail(msg, submits) ==
        [ok |-> FALSE, publicKey |-> "",
         error |-> "Failed to create session: " \o msg, storage |-> storage,
         getActions |-> 1, submitActions |-> submits]
  IN
  IF action = [throws |-> TRUE]
  THEN Fail("Invalid action code", 0)
  ELSE IF action.intendedFor = ""
  THEN Fail("Action missing intended recipient", 0)
  ELSE IF submitted = [throws |-> TRUE]
  THEN Fail("Failed to submit action", 1)
  ELSE IF submissionFailed(submitted)
  THEN Fail("Failed to create session", 1)
  ELSE [ok |-> TRUE, publicKey |-> action.intendedFor, error |-> "",
        getActions |-> 1, submitActions |-> 1,
        storage |-> storeSession(
          [signedTxBase64 |-> submitted.result,
           expiresAt |-> toISOString(t + sessionDurationMs),
           origin |-> origin])]

\* ------------------------------------------------------------------------
\* ActionCodesService (services/action-codes.ts) and the error classes
\* (errors/index.ts)
\* ------------------------------------------------------------------------

UpperCaseLetters == "ABCDEFGHIJKLMNOPQRSTUVWXYZ"

LowerCaseLetters == "abcdefghijklmnopqrstuvwxyz"

\* String.prototype.toLowerCase on one character
lowerChar(c) ==
  IF \E i \in 1..26 : SubSeq(UpperCaseLetters, i, i) = c
  THEN LET i == CHOOSE i \in 1..26 : SubSeq(UpperCaseLetters, i, i) = c
       IN  SubSeq(LowerCaseLetters, i, i)
  ELSE c

\* the characters of s from the i-th on, in lower case
RECURSIVE lowerFrom(_, _)
lowerFrom(s, i) ==
  IF i > Len(s) THEN ""
  ELSE lowerChar(SubSeq(s, i, i)) \o lowerFrom(s, i + 1)

\* String.prototype.toLowerCase
toLowerCase(s) == lowerFrom(s, 1)

\* pieces of the messages a failing request may carry
Fragments ==
  {"CORS request", "Preflight", "fetch", "blocked", "Failed to fetch",
   "Network Error", "timeout", "Timed out", "400", "401 Unauthorized", "404",
   "Not Found", "503", "Service Unavailable", "boom"}

\* the messages made of at most n fragments
RECURSIVE MessagesOf(_)
MessagesOf(n) ==
  IF n = 0 THEN {""}
  ELSE MessagesOf(n - 1)
         \cup {IF m = "" THEN f ELSE m \o " " \o f :
                 m \in MessagesOf(n - 1), f \in Fragments}

Messages == MessagesOf(MaxFragments)

\* the name of an Error the SDK client may throw
ErrorNames == {"Error", "TypeError", "TaskTimeoutError", "TaskNotFoundError"}

\* what the SDK client may reject with: an Error with a name and a message;
\* a string; undefined. `catch (error)` receives any of them
ThrownError(name, message) == [name |-> name, message |-> message]

ThrownString == [value |-> "boom"]

\* the messages the errors of every name are drawn with
NamedMessages == {"", "Failed to fetch", "Task lookup timed out"}

ClientThrows ==
  [name : {"Error"}, message : Messages]
    \cup [name : ErrorNames, message : NamedMessages]
    \cup {ThrownString, Null}

\* reading error.message.toLowerCase() or error.name throws a TypeError on
\* a value that has no such property to call or read
TypeError(message) == [class |-> "TypeError", message |-> message]

hasMessage(error) == "message" \in DOMAIN error

\* how an async call ended: it returned value, or it threw value
Resolves(value) == [threw |-> FALSE, value |-> value]

Rejects(value) == [threw |-> TRUE, value |-> value]

\* new NetworkError(message, originalError): the third argument,
\* networkErrorCode, defaults to "NETWORK_ERROR" (errors/index.ts:31-38)
NetworkError(message, originalError) ==
  [class |-> "NetworkError", code |-> "NETWORK_ERROR", message |-> message,
   originalError |-> originalError, networkErrorCode |-> "NETWORK_ERROR"]

\* new InvalidActionCodeError(actionCode, reason)
InvalidActionCodeError(actionCode, reason) ==
  [class |-> "InvalidActionCodeError", code |-> "INVALID_ACTION_CODE",
   message |-> "Invalid action code: " \o reason, actionCode |-> actionCode]

\* new ActionProcessingError(message, phase, originalError)
ActionProcessingError(message, phase, originalError) ==
  [class |-> "ActionProcessingError", code |-> "PROCESSING_ERROR",
   message |-> message, phase |-> phase, originalError |-> originalError]

\* NetworkError.getHelpText (errors/index.ts:66-83)
getHelpText(networkErrorCode) ==
  CASE networkErrorCode = "CORS_ERROR" ->
         "The website you're on needs to be configured to work with Actio. Contact the website administrator."
    [] networkErrorCode = "CONNECTION_ERROR" ->
         "Check your internet connection and try again."
    [] networkErrorCode = "TIMEOUT_ERROR" ->
         "The request is taking too long. Try again with a stable internet connection."
    [] networkErrorCode = "SERVER_ERROR" ->
         "Actio services are experiencing issues. Please try again in a few minutes."
    [] networkErrorCode = "AUTH_ERROR" ->
         "Your action code may have expired. Please generate a new one."
    [] networkErrorCode = "NOT_FOUND_ERROR" ->
         "Double-check your action code and make sure it's entered correctly."
    [] OTHER -> "If the problem persists, please contact Actio support."

\* ModalService.getErrorTitle (modal.ts:193-210)
getErrorTitle(networkErrorCode) ==
  CASE networkErrorCode = "CORS_ERROR" -> "Connection Blocked"
    [] networkErrorCode = "CONNECTION_ERROR" -> "Connection Failed"
    [] networkErrorCode = "TIMEOUT_ERROR" -> "Request Timeout"
    [] networkErrorCode = "SERVER_ERROR" -> "Service Unavailable"
    [] networkErrorCode = "AUTH_ERROR" -> "Authorization Failed"
    [] networkErrorCode = "NOT_FOUND_ERROR" -> "Action Not Found"
    [] OTHER -> "Connection Error"

\* the messages of the NetworkErrors enhanceNetworkError makes
CorsMessage ==
  "Unable to connect to Actio services due to browser security restrictions. This usually happens when the website hasn't been properly configured to work with Actio."

ConnectionMessage ==
  "Unable to connect to Actio services. Please check your internet connection and try again."

TimeoutMessage ==
  "Request timed out. The Actio service might be temporarily unavailable. Please try again."

BadRequestMessage ==
  "Invalid request. Please check your action code and try again."

UnauthorizedMessage ==
  "Unauthorized access. Your action code may have expired or be invalid."

NotFoundMessage ==
  "Action not found. Please check your action code and try again."

ServerMessage ==
  "Actio services are temporarily unavailable. Please try again in a few moments."

\* enhanceNetworkError(error) (lines 125-207)
enhanceNetworkError(error) ==
  IF ~hasMessage(error)
  THEN Rejects(TypeError("Cannot read properties of undefined (reading 'toLowerCase')"))
  ELSE
    LET errorMessage == toLowerCase(error.message)
        has(sub) == includes(errorMessage, sub)
    IN  IF \/ has("cors")
           \/ has("access-control-allow-origin")
           \/ has("preflight")
           \/ (has("fetch") /\ has("blocked"))
        THEN Resolves(NetworkError(CorsMessage, error))
        ELSE IF has("failed to fetch") \/ has("network error") \/ has("fetch error")
        THEN Resolves(NetworkError(ConnectionMessage, error))
        ELSE IF has("timeout") \/ has("timed out")
        THEN Resolves(NetworkError(TimeoutMessage, error))
        ELSE IF has("400") \/ has("bad request")
        THEN Resolves(NetworkError(BadRequestMessage, error))
        ELSE IF has("401") \/ has("unauthorized")
        THEN Resolves(NetworkError(UnauthorizedMessage, error))
        ELSE IF has("404") \/ has("not found")
        THEN Resolves(NetworkError(NotFoundMessage, error))
        ELSE IF \/ has("500") \/ has("502") \/ has("503") \/ has("504")
                \/ has("server error")
                \/ has("internal server error")
                \/ has("service unavailable")
        THEN Resolves(NetworkError(ServerMessage, error))
        ELSE Resolves(NetworkError(ConnectionMessage, error))

\* what client.getAction(code) may answer: an action, nothing, or a throw
ClientActions ==
  {Null, [intendedFor |-> ""], [intendedFor |-> "notAKey"]}
    \cup {[intendedFor |-> k] : k \in PublicKeys}

ClientGetActionAnswers ==
  {[returns |-> a] : a \in ClientActions} \cup {[throws |-> e] : e \in ClientThrows}

\* a getAction without the instanceof test of its catch: every error
\* thrown in the try block goes to enhanceNetworkError
getAction_ClassifiesAll(code, answer) ==
  IF trim(code) = ""
  THEN Rejects(InvalidActionCodeError(code, "Code cannot be empty"))
  ELSE IF "throws" \in DOMAIN answer
  THEN LET e == enhanceNetworkError(answer.throws)
       IN  Rejects(e.value)
  ELSE LET action == answer.returns
           Classified(reason) ==
             Rejects(enhanceNetworkError(
                     [name |-> "InvalidActionCodeError",
                      message |-> "Invalid action code: " \o reason]).value)
       IN  IF action = Null
           THEN Classified("Action not found")
           ELSE IF action.intendedFor = ""
           THEN Classified("Action missing intended recipient")
           ELSE IF ~isPublicKey(action.intendedFor)
           THEN Classified("Invalid recipient public key")
           ELSE Resolves(action)

\* getAction(code) (lines 26-62); answer is what client.getAction does when
\* it is called
getAction(code, answer) ==
  IF trim(code) = ""
  THEN Rejects(InvalidActionCodeError(code, "Code cannot be empty"))
  ELSE IF "throws" \in DOMAIN answer
  THEN LET e == enhanceNetworkError(answer.throws)
       IN  Rejects(e.value)
  ELSE LET action == answer.returns
       IN  IF action = Null
           THEN Rejects(InvalidActionCodeError(code, "Action not found"))
           ELSE IF action.intendedFor = ""
           THEN Rejects(InvalidActionCodeError(code,
                                             "Action missing intended recipient"))
           ELSE IF ~isPublicKey(action.intendedFor)
           THEN Rejects(InvalidActionCodeError(code, "Invalid recipient public key"))
           ELSE Resolves(action)

\* the tasks client.submitAndWait may resolve with
ClientTasks ==
  [status : {"pending", "completed", "failed", "cancelled"},
   result : {Null, [txSignature |-> "sig", signedTxBase64 |-> ""],
             [txSignature |-> "", signedTxBase64 |-> "tx"]}]

ClientSubmitAnswers ==
  {[returns |-> t] : t \in ClientTasks} \cup {[throws |-> e] : e \in ClientThrows}

\* submitAction(code, payload, timeoutMs) (lines 67-103); answer is what
\* client.submitAndWait does
submitAction(answer) ==
  IF "returns" \in DOMAIN answer
  THEN LET task == answer.returns
       IN  Resolves([status |-> task.status,
                     result |-> IF task.result = Null THEN Null
                                ELSE IF task.result.txSignature # ""
                                THEN task.result.txSignature
                                ELSE IF task.result.signedTxBase64 # ""
                                THEN task.result.signedTxBase64
                                ELSE Null])
  ELSE LET error == answer.throws
       IN  IF error = Null
           THEN Rejects(TypeError("Cannot read properties of undefined (reading 'name')"))
           ELSE IF "name" \in DOMAIN error /\ error.name = "TaskTimeoutError"
           THEN Rejects(ActionProcessingError("Task did not complete in time",
                                            "TASK_TIMEOUT", error))
           ELSE IF "name" \in DOMAIN error /\ error.name = "TaskNotFoundError"
           THEN Rejects(ActionProcessingError("Task not found",
                                            "TASK_NOT_FOUND", error))
           ELSE LET enhancedError == enhanceNetworkError(error)
                IN  IF enhancedError.threw
                    THEN enhancedError
                    ELSE Rejects(ActionProcessingError("Failed to submit action",
                                                     "SUBMISSION_FAILED",
                                                     enhancedError.value))

\* ------------------------------------------------------------------------
\* ActioWalletAdapter and ActioCore: values and handlers
\* ------------------------------------------------------------------------

\* window.location.hostname of the page
AdapterOrigin == "site.com"

\* what the user may type into the input screen while an adapter operation
\* waits for a code: nothing, a blank, a code
AdapterCodes == {"", " ", "c1"}

\* the type of the transaction handed to signTransaction
TransactionTypes == {"legacy", "versioned"}

\* an operation suspended at an await: pc names the call awaited, p is the
\* promise of show() it waits on, statuses the number of statuses it has
\* read from the status stream, codes the number of codes the modal has
\* handed it, getActions and submitActions the number of calls of each
\* it has made, the rest are its local variables
Flow(op, pc) ==
  [op |-> op, pc |-> pc, p |-> 0, code |-> "", intendedFor |-> "",
   signedTx |-> Null, statuses |-> 0, codes |-> 0, getActions |-> 0,
   submitActions |-> 0]

\* the calls a flow has made
Calls(flow) ==
  [codes |-> flow.codes, getActions |-> flow.getActions,
   submitActions |-> flow.submitActions]

\* the last step taken: op names the operation it ended or the call it
\* made ("step" for any other step), outcome is "returned" or "threw" when
\* it ended an operation, error the error thrown or caught, emitted the
\* events emitted, submitted whether the operation has called submitAction;
\* when connectWallet or openModal rethrew an error inside the step, cause
\* is the error they caught and atRethrow the modal's state at their throw,
\* calls the calls the operation that ended has made
Out(op, outcome, error) ==
  [op |-> op, outcome |-> outcome, error |-> error, emitted |-> <<>>,
   submitted |-> FALSE, validation |-> Result(FALSE, "", ""),
   intendedFor |-> "", isNewSession |-> FALSE, submission |-> Null,
   cause |-> "", atRethrow |-> Null,
   calls |-> [codes |-> 0, getActions |-> 0, submitActions |-> 0]]

\* a flow whose awaited show() promise has settled runs next, before any
\* other event is handled (its continuation is a microtask)
Resuming ==
  \E i \in DOMAIN flows :
    /\ flows[i].pc = "show"
    /\ modalService.promises[flows[i].p].state # "pending"

\* a catch that hides the modal whatever the error
openModal_catch_HidesAlways(ms, message) == hide(ms)

\* the catch of ActioCore.openModal up to its rethrow (core.ts:81-104)
openModal_catch(ms, message) ==
  IF includes(message, "Modal closed") \/ includes(message, "Action was cancelled")
  THEN hide(ms)
  ELSE showError(ms)

\* the catch of signTransaction up to its rethrow
signTransaction_catch(ms) == showError(reset(ms))

\* Transaction.from(buffer) of the caller's transaction class:
\* VersionedTransaction has no static from, and Transaction.from reads
\* the bytes of a legacy transaction only
constructorFrom(transaction, signedTx) ==
  IF transaction = "legacy" /\ signedTx.encoding = "legacy"
  THEN "ok" ELSE "throws"

\* new PublicKey(value)
PublicKey(value) == [key |-> value]

\* the program state an adapter handler reads and writes
State(ms, storage, ad, fl, o) ==
  [ms |-> ms, storage |-> storage, adapter |-> ad, flows |-> fl, out |-> o]

\* the sequence without its i-th element
Without(seq, i) == SubSeq(seq, 1, i - 1) \o SubSeq(seq, i + 1, Len(seq))

\* signTransaction throws from its try block: the catch resets the modal,
\* shows the error and rethrows (lines 480-489)
signTransaction_throw(st, i, message) ==
  [st EXCEPT !.ms = signTransaction_catch(st.ms),
             !.flows = Without(st.flows, i),
             !.out = [Out("signTransaction", "threw", message)
                        EXCEPT !.submitted = st.flows[i].pc = "submitAction",
                               !.intendedFor = st.flows[i].intendedFor,
                               !.calls = Calls(st.flows[i])]]

\* signTransaction up to the await of openModal, which shows the modal and
\* awaits the code (lines 399-407; core.ts:66-71)
signTransaction_call(st) ==
  [st EXCEPT !.ms = show(st.ms),
             !.flows = Append(st.flows,
                              [Flow("signTransaction", "show")
                                 EXCEPT !.p = Len(st.ms.promises) + 1]),
             !.out = Out("step", "", "")]

\* the promise of show() has settled: openModal returns the code and
\* signTransaction shows the loading screen and asks for the action, or
\* openModal's catch handles the rejection and rethrows it to
\* signTransaction's catch
signTransaction_afterShow(st, i) ==
  LET promise == st.ms.promises[st.flows[i].p]
  IN  IF promise.state = "resolved"
      THEN [st EXCEPT !.ms = showLoading(st.ms),
                      !.flows[i].pc = "getAction",
                      !.flows[i].code = promise.value,
                      !.flows[i].codes = @ + 1,
                      !.flows[i].getActions = @ + 1,
                      !.out = Out("step", "", "")]
      ELSE [signTransaction_throw(
              [st EXCEPT !.ms = openModal_catch(st.ms, promise.value)],
              i, promise.value)
              EXCEPT !.out.cause = promise.value,
                     !.out.atRethrow =
                       getState(openModal_catch(st.ms, promise.value))]

\* a signTransaction that asks for the action a second time when getAction
\* has thrown
signTransaction_afterGetAction_Retries(st, i, action, t) ==
  IF action = [throws |-> TRUE]
  THEN IF st.flows[i].getActions < 2
       THEN [st EXCEPT !.flows[i].getActions = @ + 1,
                       !.out = Out("step", "", "")]
       ELSE signTransaction_throw(st, i, "Invalid action code")
  ELSE
    LET v == validateSession_begin(st.storage, AdapterOrigin, t)
        st1 == [st EXCEPT !.adapter._publicKey = PublicKey(action.intendedFor),
                          !.storage = v.storage,
                          !.flows[i].intendedFor = action.intendedFor]
    IN  IF v.done
        THEN [signTransaction_throw(
                st1, i, "Session is not valid. Please reconnect your wallet.")
                EXCEPT !.out.validation = v.result]
        ELSE [st1 EXCEPT !.flows[i].pc = "validateSession",
                         !.flows[i].signedTx =
                           getStoredSession(st.storage).signedTxBase64,
                         !.out = Out("step", "", "")]

\* getAction has answered (lines 411-426): _publicKey is set to the
\* action's recipient and validateSession(origin) runs up to its return or
\* to its await of the validator
signTransaction_afterGetAction(st, i, action, t) ==
  IF action = [throws |-> TRUE]
  THEN signTransaction_throw(st, i, "Invalid action code")
  ELSE
    LET v == validateSession_begin(st.storage, AdapterOrigin, t)
        st1 == [st EXCEPT !.adapter._publicKey = PublicKey(action.intendedFor),
                          !.storage = v.storage,
                          !.flows[i].intendedFor = action.intendedFor]
    IN  IF v.done
        THEN [signTransaction_throw(
                st1, i, "Session is not valid. Please reconnect your wallet.")
                EXCEPT !.out.validation = v.result]
        ELSE [st1 EXCEPT !.flows[i].pc = "validateSession",
                         !.flows[i].signedTx =
                           getStoredSession(st.storage).signedTxBase64,
                         !.out = Out("step", "", "")]

\* validateSession has returned (lines 426-448): the two checks of the
\* session, then the caller's transaction is submitted
signTransaction_afterValidateSession(st, i, answer) ==
  LET v == validateSession_resume(st.storage, st.flows[i].signedTx, answer)
      st1 == [st EXCEPT !.storage = v.storage]
  IN  IF ~v.result.isValid \/ v.result.publicKey = ""
      THEN [signTransaction_throw(
              st1, i, "Session is not valid. Please reconnect your wallet.")
              EXCEPT !.out.validation = v.result]
      ELSE IF st.adapter._publicKey = Null
      THEN [signTransaction_throw(
              st1, i, "TypeError: Cannot read properties of null")
              EXCEPT !.out.validation = v.result]
      ELSE IF st.adapter._publicKey # PublicKey(v.result.publicKey)
      THEN [signTransaction_throw(
              st1, i,
              "Session wallet does not match action's intended recipient.")
              EXCEPT !.out.validation = v.result]
      ELSE [st1 EXCEPT !.flows[i].pc = "submitAction",
                       !.flows[i].submitActions = @ + 1,
                       !.out = [Out("signTransaction:submitAction", "", "")
                                  EXCEPT !.submitted = TRUE,
                                         !.validation = v.result,
                                         !.intendedFor = st.flows[i].intendedFor]]

\* submitAction has answered (lines 450-479): the result is decoded, the
\* success screen shown and a timer set to hide the modal
signTransaction_afterSubmitAction(st, i, submitted, transaction) ==
  LET Throw(message) ==
        [signTransaction_throw(st, i, message)
           EXCEPT !.out.submission = submitted]
  IN
  IF submitted = [throws |-> TRUE] THEN Throw("Failed to submit action")
  ELSE IF submitted.status = "failed" THEN Throw("Action failed")
  ELSE IF submitted.status = "cancelled" THEN Throw("Action was cancelled")
  ELSE IF submitted.result = Null
  THEN Throw("Did not receive signed transaction")
  ELSE IF submitted.result.encoding = "notBase64"
  THEN Throw("InvalidCharacterError")
  ELSE IF constructorFrom(transaction, submitted.result) = "throws"
  THEN Throw("Failed to parse signed transaction")
  ELSE [st EXCEPT !.ms = showSuccess(st.ms),
                  !.adapter.timers = @ + 1,
                  !.flows = Without(st.flows, i),
                  !.out = [Out("signTransaction", "returned", "")
                             EXCEPT !.submitted = TRUE,
                                    !.intendedFor = st.flows[i].intendedFor,
                                    !.submission = submitted,
                                    !.calls = Calls(st.flows[i])]]

\* a connect() that sets the timer to hide the modal for every result
connect_return_AlwaysHides(st, i, publicKey, isNewSession, validation) ==
  [st EXCEPT !.adapter._publicKey = PublicKey(publicKey),
             !.adapter._connecting = FALSE,
             !.adapter.timers = @ + 1,
             !.flows = Without(st.flows, i),
             !.out = [Out("connect", "returned", "")
                        EXCEPT !.emitted = <<"connect">>,
                               !.isNewSession = isNewSession,
                               !.submitted = isNewSession,
                               !.validation = validation,
                               !.calls = Calls(st.flows[i])]]

\* connect() has the result of connectWallet (lines 513-519)
connect_return(st, i, publicKey, isNewSession, validation) ==
  [st EXCEPT !.adapter._publicKey = PublicKey(publicKey),
             !.adapter._connecting = FALSE,
             !.adapter.timers = IF isNewSession THEN @ + 1 ELSE @,
             !.flows = Without(st.flows, i),
             !.out = [Out("connect", "returned", "")
                        EXCEPT !.emitted = <<"connect">>,
                               !.isNewSession = isNewSession,
                               !.submitted = isNewSession,
                               !.validation = validation,
                               !.calls = Calls(st.flows[i])]]

\* a catch of connect() that rethrows every error
connect_catch_Rethrows(st, i, message) ==
  [st EXCEPT !.adapter._connecting = FALSE,
             !.ms = reset(st.ms),
             !.flows = Without(st.flows, i),
             !.out = [Out("connect", "threw", message)
                        EXCEPT !.submitted = st.flows[i].pc = "createSession",
                               !.calls = Calls(st.flows[i])]]

\* the catch of connect() (lines 520-529)
connect_catch(st, i, message) ==
  [st EXCEPT !.adapter._connecting = FALSE,
             !.ms = reset(st.ms),
             !.flows = Without(st.flows, i),
             !.out = IF includes(message, "Modal closed")
                     THEN [Out("connect", "returned", message)
                             EXCEPT !.emitted = <<"disconnect">>,
                                    !.calls = Calls(st.flows[i])]
                     ELSE [Out("connect", "threw", message)
                             EXCEPT !.submitted =
                                      st.flows[i].pc = "createSession",
                                    !.calls = Calls(st.flows[i])]]

\* the catch of connectWallet up to its rethrow: an error other than
\* "modal closed" resets the modal and shows the error screen
connectWallet_catch(ms, message) ==
  IF includes(message, "Modal closed") THEN ms ELSE showError(reset(ms))

\* a connect() that does not look at _connecting before it starts
connect_call_Reentrant(st, t) ==
  LET v == validateSession_begin(st.storage, AdapterOrigin, t)
      st1 == [st EXCEPT !.adapter._connecting = TRUE,
                        !.storage = v.storage]
  IN  IF v.done
      THEN [st1 EXCEPT !.ms = show(st.ms),
                       !.flows = Append(st.flows,
                                        [Flow("connect", "show")
                                           EXCEPT !.p = Len(st.ms.promises) + 1]),
                       !.out = Out("step", "", "")]
      ELSE [st1 EXCEPT !.flows = Append(st.flows,
                                        [Flow("connect", "validateSession")
                                           EXCEPT !.signedTx =
                                             getStoredSession(st.storage).signedTxBase64]),
                       !.out = Out("step", "", "")]

\* connect() up to the first await inside connectWallet: it returns at once
\* while another connect is in flight; otherwise connectWallet validates
\* the stored session and, finding none that may be valid, shows the modal
connect_call(st, t) ==
  IF st.adapter._connecting
  THEN [st EXCEPT !.out = Out("connect:connecting", "returned", "")]
  ELSE
    LET v == validateSession_begin(st.storage, AdapterOrigin, t)
        st1 == [st EXCEPT !.adapter._connecting = TRUE,
                          !.storage = v.storage]
    IN  IF v.done
        THEN [st1 EXCEPT !.ms = show(st.ms),
                         !.flows = Append(st.flows,
                                          [Flow("connect", "show")
                                             EXCEPT !.p = Len(st.ms.promises) + 1]),
                         !.out = Out("step", "", "")]
        ELSE [st1 EXCEPT !.flows = Append(st.flows,
                                          [Flow("connect", "validateSession")
                                             EXCEPT !.signedTx =
                                               getStoredSession(st.storage).signedTxBase64]),
                         !.out = Out("step", "", "")]

\* validateSession has returned to connectWallet: a valid session is
\* returned with isNewSession=false, otherwise the modal is shown
connect_afterValidateSession(st, i, answer) ==
  LET v == validateSession_resume(st.storage, st.flows[i].signedTx, answer)
      st1 == [st EXCEPT !.storage = v.storage]
  IN  IF v.result.isValid
      THEN connect_return(st1, i, v.result.publicKey, FALSE, v.result)
      ELSE [st1 EXCEPT !.ms = show(st.ms),
                       !.flows[i].pc = "show",
                       !.flows[i].p = Len(st.ms.promises) + 1,
                       !.out = Out("step", "", "")]

\* the promise of show() has settled in connectWallet: with a code it shows
\* the loading screen and calls createSession, with a rejection it throws
connect_afterShow(st, i) ==
  LET promise == st.ms.promises[st.flows[i].p]
  IN  IF promise.state = "resolved"
      THEN [st EXCEPT !.ms = showLoading(st.ms),
                      !.flows[i].pc = "createSession",
                      !.flows[i].code = promise.value,
                      !.flows[i].codes = @ + 1,
                      !.out = Out("step", "", "")]
      ELSE [connect_catch(
              [st EXCEPT !.ms = connectWallet_catch(st.ms, promise.value)],
              i, promise.value)
              EXCEPT !.out.cause = promise.value,
                     !.out.atRethrow =
                       getState(connectWallet_catch(st.ms, promise.value))]

\* createSession has ended in connectWallet: on success the success screen
\* is shown and the new session's key returned with isNewSession=true
connect_afterCreateSession(st, i, action, submitted, t) ==
  LET c == createSession(st.storage, st.flows[i].code, AdapterOrigin,
                         action, submitted, t)
      st1 == [st EXCEPT !.storage = c.storage,
                        !.flows[i].getActions = @ + c.getActions,
                        !.flows[i].submitActions = @ + c.submitActions]
  IN  IF c.ok
      THEN connect_return([st1 EXCEPT !.ms = showSuccess(st.ms)],
                          i, c.publicKey, TRUE, Result(FALSE, "", ""))
      ELSE [connect_catch(
              [st1 EXCEPT !.ms = connectWallet_catch(st.ms, c.error)],
              i, c.error)
              EXCEPT !.out.cause = c.error,
                     !.out.atRethrow =
                       getState(connectWallet_catch(st.ms, c.error))]

\* disconnectWallet: clears the session and resets the modal
disconnectWallet(st) ==
  [st EXCEPT !.storage = clearSession(st.storage), !.ms = reset(st.ms)]

\* disconnect() (lines 532-537)
disconnect(st) ==
  [disconnectWallet([st EXCEPT !.adapter._publicKey = Null])
     EXCEPT !.out = [Out("disconnect", "returned", "")
                       EXCEPT !.emitted = <<"disconnect">>]]

\* hasValidSession(origin): the isValid of validateSession's result
hasValidSession(result) == result.isValid

\* isWalletConnected(): whether the stored session validates for the page
isWalletConnected(result) == hasValidSession(result)

\* getConnectedWallet(): the validated session's key, or null
getConnectedWallet(result) ==
  IF result.isValid THEN PublicKey(result.publicKey) ELSE Null

\* an autoConnect that emits 'connect' whatever getConnectedWallet returned
autoConnect_return_AlwaysEmits(st, flows1, publicKey, validation) ==
  [st EXCEPT !.adapter._publicKey = publicKey,
             !.flows = flows1,
             !.out = [Out("autoConnect", "returned", "")
                        EXCEPT !.emitted = <<"connect">>,
                               !.validation = validation]]

\* autoConnect returns (lines 542-551): with a key it sets _publicKey and
\* emits 'connect', without one it does nothing; flows1 are the calls
\* still in flight and validation the result of the last validateSession
autoConnect_return(st, flows1, publicKey, validation) ==
  [st EXCEPT !.adapter._publicKey = IF publicKey # Null THEN publicKey ELSE @,
             !.flows = flows1,
             !.out = [Out("autoConnect", "returned", "")
                        EXCEPT !.emitted = IF publicKey # Null
                                           THEN <<"connect">> ELSE <<>>,
                               !.validation = validation]]

\* autoConnect up to the first await that does not settle at once (lines
\* 540-541): isWalletConnected validates the stored session
autoConnect_call(st, t) ==
  LET v == validateSession_begin(st.storage, AdapterOrigin, t)
      st1 == [st EXCEPT !.storage = v.storage]
  IN  IF v.done
      THEN autoConnect_return(st1, st.flows, Null, v.result)
      ELSE [st1 EXCEPT !.flows = Append(st.flows,
                                        [Flow("autoConnect", "isWalletConnected")
                                           EXCEPT !.signedTx =
                                             getStoredSession(st.storage).signedTxBase64]),
                       !.out = Out("step", "", "")]

\* the validator has answered isWalletConnected (lines 541-543): when
\* connected, getConnectedWallet validates the stored session again
autoConnect_afterIsWalletConnected(st, i, answer, t) ==
  LET v1 == validateSession_resume(st.storage, st.flows[i].signedTx, answer)
      st1 == [st EXCEPT !.storage = v1.storage]
  IN  IF ~isWalletConnected(v1.result)
      THEN autoConnect_return(st1, Without(st.flows, i), Null, v1.result)
      ELSE
        LET v2 == validateSession_begin(st1.storage, AdapterOrigin, t)
            st2 == [st1 EXCEPT !.storage = v2.storage]
        IN  IF v2.done
            THEN autoConnect_return(st2, Without(st.flows, i),
                                    getConnectedWallet(v2.result), v2.result)
            ELSE [st2 EXCEPT !.flows[i].pc = "getConnectedWallet",
                             !.flows[i].signedTx =
                               getStoredSession(st1.storage).signedTxBase64,
                             !.out = Out("step", "", "")]

\* the validator has answered getConnectedWallet (lines 543-548)
autoConnect_afterGetConnectedWallet(st, i, answer) ==
  LET v == validateSession_resume(st.storage, st.flows[i].signedTx, answer)
  IN  autoConnect_return([st EXCEPT !.storage = v.storage],
                         Without(st.flows, i),
                         getConnectedWallet(v.result), v.result)

\* ActionCodesService.mapActionStatus of the status-stream service: the
\* service's status strings to ActionStatus; an unknown string (the
\* service's "cancelled" is one) is logged and mapped to "processing"
mapActionStatus(status) ==
  CASE status \in {"pending", "validating"} -> "validating"
    [] status \in {"processing", "executing"} -> "processing"
    [] status = "signing" -> "signing"
    [] status \in {"submitting", "broadcasting"} -> "submitting"
    [] status \in {"completed", "success"} -> "completed"
    [] status \in {"failed", "error"} -> "failed"
    [] OTHER -> "processing"

\* updateLoadingMessage(status)
updateLoadingMessage(ms, status) == showLoading(ms)

\* the catch of processActionWithUI up to its rethrow (core.ts:281-296):
\* both branches show the error screen
processActionWithUI_catch(ms, message) == showError(ms)

\* openModal throws: error is what its try block threw, ms the modal as
\* openModal's catch finds it
openModal_throw(st, i, ms, message) ==
  [st EXCEPT !.ms = openModal_catch(ms, message),
             !.flows = Without(st.flows, i),
             !.out = [Out("openModal", "threw", message)
                        EXCEPT !.cause = message,
                               !.atRethrow =
                                 getState(openModal_catch(ms, message))]]

\* processActionWithUI throws inside openModal: its own catch runs first
processActionWithUI_throw(st, i, ms, message) ==
  openModal_throw(st, i, processActionWithUI_catch(ms, message), message)

\* openModal up to its await of show() (core.ts:66-71)
openModal_call(st) ==
  [st EXCEPT !.ms = show(st.ms),
             !.flows = Append(st.flows,
                              [Flow("openModal", "show")
                                 EXCEPT !.p = Len(st.ms.promises) + 1]),
             !.out = Out("step", "", "")]

\* show() has settled: processActionWithUI starts with the code (core.ts:
\* 72, 216-218), or the rejection goes to openModal's catch
openModal_afterShow(st, i) ==
  LET promise == st.ms.promises[st.flows[i].p]
  IN  IF promise.state = "resolved"
      THEN [st EXCEPT !.ms = showLoading(st.ms),
                      !.flows[i].pc = "getAction",
                      !.flows[i].code = promise.value,
                      !.flows[i].codes = @ + 1,
                      !.flows[i].getActions = @ + 1,
                      !.out = Out("step", "", "")]
      ELSE openModal_throw(st, i, st.ms, promise.value)

\* getAction has answered (core.ts:218-227)
openModal_afterGetAction(st, i, action) ==
  IF action = [throws |-> TRUE]
  THEN processActionWithUI_throw(st, i, st.ms, "Invalid action code")
  ELSE [st EXCEPT !.ms = showLoading(st.ms),
                  !.flows[i].pc = "prepareTransaction",
                  !.flows[i].intendedFor = action.intendedFor,
                  !.out = Out("step", "", "")]

\* prepareTransaction has answered (core.ts:228-242)
openModal_afterPrepareTransaction(st, i, throws) ==
  IF throws
  THEN processActionWithUI_throw(st, i, st.ms, "Failed to prepare transaction")
  ELSE [st EXCEPT !.ms = showLoading(st.ms),
                  !.flows[i].pc = "submitAction",
                  !.flows[i].submitActions = @ + 1,
                  !.out = Out("step", "", "")]

\* submitAction has answered with the status stream (core.ts:238-247)
openModal_afterSubmitAction(st, i, throws) ==
  IF throws
  THEN processActionWithUI_throw(st, i, st.ms, "Failed to submit action")
  ELSE [st EXCEPT !.flows[i].pc = "status",
                  !.out = Out("step", "", "")]

\* the status stream has answered the loop (core.ts:247-280): event is a
\* status of the service, "done" at the end of the stream, or "throws"
openModal_afterStatus(st, i, event) ==
  IF event = "throws"
  THEN processActionWithUI_throw(st, i, st.ms, "Action processing failed")
  ELSE IF event = "done"
  THEN processActionWithUI_throw(st, i, st.ms,
                                 "Action did not complete successfully.")
  ELSE
    LET status == mapActionStatus(event)
        ms1 == updateLoadingMessage(st.ms, status)
    IN  IF status = "cancelled"
        THEN processActionWithUI_throw(st, i, hide(ms1), "Action was cancelled")
        ELSE IF status = "failed"
        THEN processActionWithUI_throw(st, i, ms1, "Action processing failed")
        ELSE IF status = "completed"
        THEN [st EXCEPT !.ms = ms1,
                        !.flows[i].pc = "getResolvedAction",
                        !.flows[i].statuses = @ + 1,
                        !.out = Out("step", "", "")]
        ELSE [st EXCEPT !.ms = ms1,
                        !.flows[i].statuses = @ + 1,
                        !.out = Out("step", "", "")]

\* getResolvedAction has answered: processActionWithUI returns the result
\* and openModal shows the success screen (core.ts:258-277, 72-80)
openModal_afterGetResolvedAction(st, i, throws) ==
  IF throws
  THEN processActionWithUI_throw(st, i, st.ms, "Failed to get resolved action")
  ELSE [st EXCEPT !.ms = showSuccess(st.ms),
                  !.flows = Without(st.flows, i),
                  !.out = [Out("openModal", "returned", "")
                             EXCEPT !.intendedFor = st.flows[i].intendedFor,
                                    !.submitted = TRUE]]

\* a processAction whose catch shows the error screen, as the catch of
\* processActionWithUI does
processAction_throw_ShowsError(st, i, message) ==
  [st EXCEPT !.ms = showError(st.ms),
             !.flows = Without(st.flows, i),
             !.out = [Out("processAction", "threw", message)
                        EXCEPT !.calls = Calls(st.flows[i])]]

\* processAction throws from its try block: the catch rethrows
\* toActioError(error) (core.ts:165-167)
processAction_throw(st, i, message) ==
  [st EXCEPT !.flows = Without(st.flows, i),
             !.out = [Out("processAction", "threw", message)
                        EXCEPT !.calls = Calls(st.flows[i])]]

\* processAction(code) up to its await of getAction (core.ts:110-116)
processAction_call(st, code) ==
  [st EXCEPT !.flows = Append(st.flows,
                              [Flow("processAction", "getAction")
                                 EXCEPT !.code = code,
                                        !.getActions = 1]),
             !.out = Out("step", "", "")]

\* getAction has answered (core.ts:116-127)
processAction_afterGetAction(st, i, action) ==
  IF action = [throws |-> TRUE]
  THEN processAction_throw(st, i, "Invalid action code")
  ELSE IF action.intendedFor = ""
  THEN processAction_throw(st, i, "Action missing intended recipient")
  ELSE [st EXCEPT !.flows[i].pc = "prepareTransaction",
                  !.flows[i].intendedFor = action.intendedFor,
                  !.out = Out("step", "", "")]

\* prepareTransaction has answered (core.ts:125-138)
processAction_afterPrepareTransaction(st, i, throws) ==
  IF throws
  THEN processAction_throw(st, i, "Failed to prepare transaction")
  ELSE [st EXCEPT !.flows[i].pc = "submitAction",
                  !.flows[i].submitActions = @ + 1,
                  !.out = Out("step", "", "")]

\* submitAction has answered with the status stream (core.ts:134-142)
processAction_afterSubmitAction(st, i, throws) ==
  IF throws
  THEN processAction_throw(st, i, "Failed to submit action")
  ELSE [st EXCEPT !.flows[i].pc = "status",
                  !.out = Out("step", "", "")]

\* the result processAction returns (core.ts:159-164)
processAction_return(st, i) ==
  [st EXCEPT !.flows = Without(st.flows, i),
             !.out = [Out("processAction", "returned", "")
                        EXCEPT !.intendedFor = st.flows[i].intendedFor,
                               !.submitted = TRUE,
                               !.calls = Calls(st.flows[i])]]

\* the status stream has answered the loop (core.ts:142-157): event is a
\* status of the service, "done" at the end of the stream, or "throws"
processAction_afterStatus(st, i, event) ==
  IF event = "throws"
  THEN processAction_throw(st, i, "Action processing failed")
  ELSE IF event = "done"
  THEN processAction_return(st, i)
  ELSE
    LET status == mapActionStatus(event)
    IN  IF status = "cancelled"
        THEN processAction_throw(st, i, "Action was cancelled")
        ELSE IF status = "failed"
        THEN processAction_throw(st, i, "Action processing failed")
        ELSE IF status = "completed"
        THEN [st EXCEPT !.flows[i].pc = "getResolvedAction",
                        !.flows[i].statuses = @ + 1,
                        !.out = Out("step", "", "")]
        ELSE [st EXCEPT !.flows[i].statuses = @ + 1,
                        !.out = Out("step", "", "")]

\* getResolvedAction has answered (core.ts:150-164)
processAction_afterGetResolvedAction(st, i, throws) ==
  IF throws
  THEN processAction_throw(st, i, "Failed to get resolved action")
  ELSE processAction_return(st, i)

\* ------------------------------------------------------------------------
\* Modal specification: any sequence of ModalService calls and UI events
\* ------------------------------------------------------------------------

modalVars == <<modalService, hist>>

sessionVars == <<localStorage, now, validating, ret>>

adapterVars == <<adapter, flows, out>>

serviceVars == <<service>>

vars ==
  <<modalService, hist, localStorage, now, validating, ret, adapter, flows,
    out, service>>

ModalServiceInit ==
  [modal |-> Null, currentPromise |-> 0, promises |-> <<>>, keydown |-> FALSE]

Did(op, arg, ms) ==
  /\ modalService' = ms
  /\ hist' = [op |-> op, arg |-> arg, before |-> modalService,
              prevOp |-> hist.op]

ModalInit ==
  /\ modalService = ModalServiceInit
  /\ hist = [op |-> "new", arg |-> "", before |-> ModalServiceInit,
             prevOp |-> "new"]

CallInit ==
  /\ Did("init", "", init(modalService))
  /\ UNCHANGED <<sessionVars, adapterVars, serviceVars>>

CallShow ==
  /\ Len(modalService.promises) < MaxShows
  /\ Did("show", "", show(modalService))
  /\ UNCHANGED <<sessionVars, adapterVars, serviceVars>>

CallHide ==
  /\ Did("hide", "", hide(modalService))
  /\ UNCHANGED <<sessionVars, adapterVars, serviceVars>>

CallReset ==
  /\ Did("reset", "", reset(modalService))
  /\ UNCHANGED <<sessionVars, adapterVars, serviceVars>>

CallShowLoading ==
  /\ Did("showLoading", "", showLoading(modalService))
  /\ UNCHANGED <<sessionVars, adapterVars, serviceVars>>

CallShowError ==
  /\ Did("showError", "", showError(modalService))
  /\ UNCHANGED <<sessionVars, adapterVars, serviceVars>>

CallShowSuccess ==
  /\ Did("showSuccess", "", showSuccess(modalService))
  /\ UNCHANGED <<sessionVars, adapterVars, serviceVars>>

CallForceClose ==
  /\ Did("forceClose", "", forceClose(modalService))
  /\ UNCHANGED <<sessionVars, adapterVars, serviceVars>>

CallUnmount ==
  /\ Did("unmount", "", unmount(modalService))
  /\ UNCHANGED <<sessionVars, adapterVars, serviceVars>>

\* the user submits the form of the input screen, which is rendered while
\* the modal is visible on that screen
UserSubmitsCode ==
  /\ modalService.modal # Null
  /\ modalService.modal.visible
  /\ modalService.modal.screen = "input"
  /\ \E code \in RawCodes :
       Did("code-submit", code,
           ActioInputScreen_handleSubmit(modalService, code))
  /\ UNCHANGED <<sessionVars, adapterVars, serviceVars>>

\* the user presses "Try Again" on the error screen
UserRetries ==
  /\ modalService.modal # Null
  /\ modalService.modal.visible
  /\ modalService.modal.screen = "error"
  /\ Did("modal-retry", "", onModalRetry(modalService))
  /\ UNCHANGED <<sessionVars, adapterVars, serviceVars>>

\* the user presses a close/cancel button (input, error and success screens
\* have one); ActioModal._handleClose dispatches modal-close {reason: "user"}
UserCloses ==
  /\ modalService.modal # Null
  /\ modalService.modal.visible
  /\ modalService.modal.screen \in {"input", "error", "success"}
  /\ Did("modal-close", "user", onModalClose(modalService, "user"))
  /\ UNCHANGED <<sessionVars, adapterVars, serviceVars>>

\* a key press on the document once init() has bound the keydown listener
UserPressesKey ==
  /\ modalService.keydown
  /\ \E key \in {"Escape", "Enter"} :
       Did("keydown", key, onKeydown(modalService, key))
  /\ UNCHANGED <<sessionVars, adapterVars, serviceVars>>

Next ==
  \/ CallInit
  \/ CallShow
  \/ CallHide
  \/ CallReset
  \/ CallShowLoading
  \/ CallShowError
  \/ CallShowSuccess
  \/ CallForceClose
  \/ CallUnmount
  \/ UserSubmitsCode
  \/ UserRetries
  \/ UserCloses
  \/ UserPressesKey

\* ------------------------------------------------------------------------
\* Session specification: calls of the SessionService, the answers of the
\* action service and of the validator, and the clock
\* ------------------------------------------------------------------------

Statuses == {"pending", "completed", "failed", "cancelled"}

NoResult == Result(FALSE, "", "")

NoCreated == [ok |-> FALSE, publicKey |-> "", error |-> ""]

Ret(op, origin, session, at, ran, result, created) ==
  [op |-> op, origin |-> origin, session |-> session, at |-> at,
   ran |-> ran, answer |-> "", result |-> result, created |-> created,
   submitted |-> Null]

Step(op) == Ret(op, "", Null, now, <<>>, NoResult, NoCreated)

Remove(seq, i) == SubSeq(seq, 1, i - 1) \o SubSeq(seq, i + 1, Len(seq))

SessionInit ==
  /\ localStorage = Null
  /\ now = 0
  /\ validating = <<>>
  /\ ret = Step("new")

\* time passes
Tick ==
  \E d \in {1, sessionDurationMs} :
    /\ (now + d) \div sessionDurationMs <= MaxDays
    /\ (now + d) % sessionDurationMs <= MaxMs
    /\ now' = now + d
    /\ ret' = Step("tick")
    /\ UNCHANGED <<localStorage, validating>>
    /\ UNCHANGED <<modalVars, adapterVars, serviceVars>>

\* validateSession(origin) runs up to its return or to the await of the
\* validator
CallValidateSession ==
  /\ \E origin \in Origins :
    LET v == validateSession_begin(localStorage, origin, now)
        session == getStoredSession(localStorage)
    IN  IF v.done
        THEN /\ localStorage' = v.storage
             /\ ret' = Ret("validateSession", origin, session, now, v.ran,
                           v.result, NoCreated)
             /\ UNCHANGED <<now, validating>>
        ELSE /\ Len(validating) < MaxValidating
             /\ validating' = Append(validating, session.signedTxBase64)
             /\ ret' = Ret("validateSession:await", origin, session, now,
                           v.ran, NoResult, NoCreated)
             /\ UNCHANGED <<localStorage, now>>
  /\ UNCHANGED <<modalVars, adapterVars, serviceVars>>

\* validateActionCodesMemoTransaction settles: with its verdict on the
\* transaction, or by throwing; validateSession runs on to its return
ValidatorAnswers ==
  /\ \E i \in DOMAIN validating, throws \in BOOLEAN :
    LET signedTx == validating[i]
        answer == IF throws THEN "throws"
                  ELSE IF signedTx.valid THEN "true" ELSE "false"
        v == validateSession_resume(localStorage, signedTx, answer)
    IN  /\ localStorage' = v.storage
        /\ validating' = Remove(validating, i)
        /\ ret' = [Ret("validateSession:resumed", "",
                       [signedTxBase64 |-> signedTx], now, <<>>, v.result,
                       NoCreated) EXCEPT !.answer = answer]
        /\ UNCHANGED now
  /\ UNCHANGED <<modalVars, adapterVars, serviceVars>>

\* what getAction may answer for a code: it throws (blank code, unknown
\* code, transport failure) or returns an action naming its recipient
ActionOutcomes(code) ==
  {[throws |-> TRUE]}
    \cup (IF trim(code) = "" THEN {}
          ELSE {[intendedFor |-> k] : k \in PublicKeys})

\* what submitAction may answer: it throws, or returns a status with the
\* signed payload or null; createSession tells "completed" from every other
\* status, of which two stand for all
SubmitOutcomes ==
  {[throws |-> TRUE]}
    \cup [status : {"completed"}, result : Payloads \cup {Null}]
    \cup {[status |-> "pending", result |-> Tx("legacy", "Addr1", TRUE)],
          [status |-> "failed", result |-> Null]}

\* a createSession call completes; the call reads neither the storage nor
\* the clock before its last step, so its awaits interleave with nothing
CallCreateSession ==
  /\ \E code \in {" ", "c1"}, origin \in Origins :
    \E action \in ActionOutcomes(code) :
    \E submitted \in (IF action = [throws |-> TRUE] THEN {[throws |-> TRUE]}
                      ELSE SubmitOutcomes) :
      LET c == createSession(localStorage, code, origin, action, submitted, now)
      IN  /\ localStorage' = c.storage
          /\ ret' = [Ret("createSession", origin, Null, now, <<>>, NoResult,
                         [ok |-> c.ok, publicKey |-> c.publicKey,
                          error |-> c.error])
                       EXCEPT !.submitted = submitted]
          /\ UNCHANGED <<now, validating>>
  /\ UNCHANGED <<modalVars, adapterVars, serviceVars>>

CallClearSession ==
  /\ localStorage' = clearSession(localStorage)
  /\ ret' = Step("clearSession")
  /\ UNCHANGED <<now, validating>>
  /\ UNCHANGED <<modalVars, adapterVars, serviceVars>>

NextSession ==
  \/ Tick
  \/ CallValidateSession
  \/ ValidatorAnswers
  \/ CallCreateSession
  \/ CallClearSession

\* ------------------------------------------------------------------------
\* Adapter specification: calls of connect, signTransaction and disconnect,
\* the answers of the action service and of the validator, UI events,
\* timers and the clock
\* ------------------------------------------------------------------------

\* the adapter after its constructor
AdapterObjectInit == [_publicKey |-> Null, _connecting |-> FALSE, timers |-> 0]

AdapterIdle ==
  /\ adapter = AdapterObjectInit
  /\ flows = <<>>
  /\ out = Out("new", "", "")

StateNow == State(modalService, localStorage, adapter, flows, out)

\* a handler has run and left the state st
Becomes(st) ==
  /\ modalService' = st.ms
  /\ localStorage' = st.storage
  /\ adapter' = st.adapter
  /\ flows' = st.flows
  /\ out' = st.out
  /\ UNCHANGED <<hist, now, validating, ret, service>>

CallSignTransaction ==
  /\ ~Resuming
  /\ Len(flows) < MaxFlows
  /\ Len(modalService.promises) < MaxAdapterShows
  /\ Becomes(signTransaction_call(StateNow))

SignTransactionAfterShow ==
  \E i \in DOMAIN flows :
    /\ flows[i].op = "signTransaction"
    /\ flows[i].pc = "show"
    /\ modalService.promises[flows[i].p].state # "pending"
    /\ Becomes(signTransaction_afterShow(StateNow, i))

GetActionAnswersSignTransaction ==
  \E i \in DOMAIN flows :
    /\ ~Resuming
    /\ flows[i].op = "signTransaction"
    /\ flows[i].pc = "getAction"
    /\ \E action \in ActionOutcomes(flows[i].code) :
         Becomes(signTransaction_afterGetAction(StateNow, i, action, now))

\* what submitAction may answer an adapter operation: it throws, or returns
\* a status with a payload or null
AdapterPayloads ==
  {Tx("garbage", "none", FALSE), Tx("legacy", "Addr1", TRUE),
   Tx("versioned", "Addr2", TRUE), Tx("legacy", "Addr2", FALSE)}

AdapterSubmitOutcomes ==
  {[throws |-> TRUE]}
    \cup [status : {"completed"}, result : AdapterPayloads \cup {Null}]
    \cup {[status |-> "failed", result |-> Null],
          [status |-> "cancelled", result |-> Null],
          [status |-> "pending", result |-> Null],
          [status |-> "pending", result |-> Tx("legacy", "Addr1", TRUE)]}

\* the validator settles for the validateSession call of a flow
ValidatorAnswersFor(op, i) ==
  {"throws", IF flows[i].signedTx.valid THEN "true" ELSE "false"}

ValidatorAnswersSignTransaction ==
  \E i \in DOMAIN flows :
    /\ ~Resuming
    /\ flows[i].op = "signTransaction"
    /\ flows[i].pc = "validateSession"
    /\ \E answer \in ValidatorAnswersFor("signTransaction", i) :
         Becomes(signTransaction_afterValidateSession(StateNow, i, answer))

SubmitActionAnswersSignTransaction ==
  \E i \in DOMAIN flows :
    /\ ~Resuming
    /\ flows[i].op = "signTransaction"
    /\ flows[i].pc = "submitAction"
    /\ \E submitted \in AdapterSubmitOutcomes, transaction \in TransactionTypes :
         Becomes(signTransaction_afterSubmitAction(StateNow, i, submitted,
                                                   transaction))

CallConnect ==
  /\ ~Resuming
  /\ adapter._connecting \/ Len(flows) < MaxFlows
  /\ (~adapter._connecting
        /\ validateSession_begin(localStorage, AdapterOrigin, now).done)
       => Len(modalService.promises) < MaxAdapterShows
  /\ Becomes(connect_call(StateNow, now))

ValidatorAnswersConnect ==
  \E i \in DOMAIN flows :
    /\ ~Resuming
    /\ flows[i].op = "connect"
    /\ flows[i].pc = "validateSession"
    /\ \E answer \in ValidatorAnswersFor("connect", i) :
         /\ answer # "true" => Len(modalService.promises) < MaxAdapterShows
         /\ Becomes(connect_afterValidateSession(StateNow, i, answer))

ConnectAfterShow ==
  \E i \in DOMAIN flows :
    /\ flows[i].op = "connect"
    /\ flows[i].pc = "show"
    /\ modalService.promises[flows[i].p].state # "pending"
    /\ Becomes(connect_afterShow(StateNow, i))

CreateSessionEndsConnect ==
  \E i \in DOMAIN flows :
    /\ ~Resuming
    /\ flows[i].op = "connect"
    /\ flows[i].pc = "createSession"
    /\ \E action \in ActionOutcomes(flows[i].code) :
       \E submitted \in (IF action = [throws |-> TRUE]
                         THEN {[throws |-> TRUE]} ELSE AdapterSubmitOutcomes) :
         Becomes(connect_afterCreateSession(StateNow, i, action, submitted,
                                            now))

CallDisconnect ==
  /\ ~Resuming
  /\ Becomes(disconnect(StateNow))

CallAutoConnect ==
  /\ ~Resuming
  /\ Len(flows) < MaxFlows
  /\ Becomes(autoConnect_call(StateNow, now))

ValidatorAnswersIsWalletConnected ==
  \E i \in DOMAIN flows :
    /\ ~Resuming
    /\ flows[i].op = "autoConnect"
    /\ flows[i].pc = "isWalletConnected"
    /\ \E answer \in ValidatorAnswersFor("autoConnect", i) :
         Becomes(autoConnect_afterIsWalletConnected(StateNow, i, answer, now))

ValidatorAnswersGetConnectedWallet ==
  \E i \in DOMAIN flows :
    /\ ~Resuming
    /\ flows[i].op = "autoConnect"
    /\ flows[i].pc = "getConnectedWallet"
    /\ \E answer \in ValidatorAnswersFor("autoConnect", i) :
         Becomes(autoConnect_afterGetConnectedWallet(StateNow, i, answer))

\* a timer set by connect or signTransaction fires and hides the modal
TimerFires ==
  /\ ~Resuming
  /\ adapter.timers > 0
  /\ Becomes([StateNow EXCEPT !.ms = hide(modalService),
                              !.adapter.timers = @ - 1,
                              !.out = Out("step", "", "")])

\* the UI events of the modal specification, each handled once no flow has
\* a continuation to run
SubmitsCode ==
  /\ ~Resuming
  /\ getState(modalService) = [visible |-> TRUE, screen |-> "input"]
  /\ \E code \in AdapterCodes :
       Becomes([StateNow EXCEPT
                  !.ms = ActioInputScreen_handleSubmit(modalService, code),
                  !.out = Out("step", "", "")])

Retries ==
  /\ ~Resuming
  /\ getState(modalService) = [visible |-> TRUE, screen |-> "error"]
  /\ Becomes([StateNow EXCEPT !.ms = onModalRetry(modalService),
                              !.out = Out("step", "", "")])

Closes ==
  /\ ~Resuming
  /\ getState(modalService).visible
  /\ getState(modalService).screen \in {"input", "error", "success"}
  /\ Becomes([StateNow EXCEPT !.ms = onModalClose(modalService, "user"),
                              !.out = Out("step", "", "")])

PressesKey ==
  /\ ~Resuming
  /\ modalService.keydown
  /\ \E key \in {"Escape", "Enter"} :
       Becomes([StateNow EXCEPT !.ms = onKeydown(modalService, key),
                                !.out = Out("step", "", "")])

\* time passes while no continuation is waiting to run: long enough for
\* the stored session to be past its expiry after. The adapter reads the
\* clock only to set and to test a session's expiry, so time that passes
\* with no session stored, or with one already expired, is not told apart
TimePasses ==
  /\ ~Resuming
  /\ localStorage # Null
  /\ ~isExpired(DateOf(getStoredSession(localStorage).expiresAt), now)
  /\ (now + sessionDurationMs + 1) \div sessionDurationMs <= MaxDays
  /\ now' = now + sessionDurationMs + 1
  /\ out' = Out("step", "", "")
  /\ UNCHANGED <<modalVars, localStorage, validating, ret, adapter, flows,
                  service>>

NextAdapter ==
  \/ CallSignTransaction
  \/ SignTransactionAfterShow
  \/ GetActionAnswersSignTransaction
  \/ ValidatorAnswersSignTransaction
  \/ SubmitActionAnswersSignTransaction
  \/ CallConnect
  \/ ValidatorAnswersConnect
  \/ ConnectAfterShow
  \/ CreateSessionEndsConnect
  \/ CallDisconnect
  \/ TimerFires
  \/ SubmitsCode
  \/ Retries
  \/ Closes
  \/ PressesKey
  \/ TimePasses

\* ------------------------------------------------------------------------
\* Auto-connect specification: autoConnect on a page where sessions are made
\* by connect and ended by disconnect and by time
\* ------------------------------------------------------------------------

NextAutoConnect ==
  \/ CallAutoConnect
  \/ ValidatorAnswersIsWalletConnected
  \/ ValidatorAnswersGetConnectedWallet
  \/ CallConnect
  \/ ValidatorAnswersConnect
  \/ ConnectAfterShow
  \/ CreateSessionEndsConnect
  \/ CallDisconnect
  \/ SubmitsCode
  \/ Closes
  \/ TimePasses

\* ------------------------------------------------------------------------
\* Core specification: ActioCore.init and openModal over the status-stream
\* service, the answers of the service, and UI events
\* ------------------------------------------------------------------------

\* the status strings the service may send
ServiceStatuses == {"pending", "signing", "completed", "failed", "cancelled"}

\* ActioCore.init()
CallCoreInit ==
  /\ ~Resuming
  /\ Becomes([StateNow EXCEPT !.ms = init(modalService),
                              !.out = Out("init", "returned", "")])

CallOpenModal ==
  /\ ~Resuming
  /\ Len(flows) < MaxFlows
  /\ Len(modalService.promises) < MaxAdapterShows
  /\ Becomes(openModal_call(StateNow))

OpenModalAfterShow ==
  \E i \in DOMAIN flows :
    /\ flows[i].op = "openModal"
    /\ flows[i].pc = "show"
    /\ modalService.promises[flows[i].p].state # "pending"
    /\ Becomes(openModal_afterShow(StateNow, i))

GetActionAnswersOpenModal ==
  \E i \in DOMAIN flows :
    /\ ~Resuming
    /\ flows[i].op = "openModal"
    /\ flows[i].pc = "getAction"
    /\ \E action \in ActionOutcomes(flows[i].code) :
         Becomes(openModal_afterGetAction(StateNow, i, action))

PrepareTransactionAnswersOpenModal ==
  \E i \in DOMAIN flows :
    /\ ~Resuming
    /\ flows[i].op = "openModal"
    /\ flows[i].pc = "prepareTransaction"
    /\ \E throws \in BOOLEAN :
         Becomes(openModal_afterPrepareTransaction(StateNow, i, throws))

SubmitActionAnswersOpenModal ==
  \E i \in DOMAIN flows :
    /\ ~Resuming
    /\ flows[i].op = "openModal"
    /\ flows[i].pc = "submitAction"
    /\ \E throws \in BOOLEAN :
         Becomes(openModal_afterSubmitAction(StateNow, i, throws))

StatusArrivesOpenModal ==
  \E i \in DOMAIN flows :
    /\ ~Resuming
    /\ flows[i].op = "openModal"
    /\ flows[i].pc = "status"
    /\ \E event \in {"done", "throws"}
                      \cup (IF flows[i].statuses < MaxStatuses
                            THEN ServiceStatuses ELSE {}) :
         Becomes(openModal_afterStatus(StateNow, i, event))

GetResolvedActionAnswersOpenModal ==
  \E i \in DOMAIN flows :
    /\ ~Resuming
    /\ flows[i].op = "openModal"
    /\ flows[i].pc = "getResolvedAction"
    /\ \E throws \in BOOLEAN :
         Becomes(openModal_afterGetResolvedAction(StateNow, i, throws))

NextCore ==
  \/ CallCoreInit
  \/ CallOpenModal
  \/ OpenModalAfterShow
  \/ GetActionAnswersOpenModal
  \/ PrepareTransactionAnswersOpenModal
  \/ SubmitActionAnswersOpenModal
  \/ StatusArrivesOpenModal
  \/ GetResolvedActionAnswersOpenModal
  \/ SubmitsCode
  \/ Retries
  \/ Closes
  \/ PressesKey

\* the headless operation of the core: processAction(code) with any code,
\* one call at a time (two calls share no state)
CallProcessAction ==
  /\ ~Resuming
  /\ Len(flows) < MaxFlows
  /\ \A i \in DOMAIN flows : flows[i].op # "processAction"
  /\ \E code \in AdapterCodes : Becomes(processAction_call(StateNow, code))

GetActionAnswersProcessAction ==
  \E i \in DOMAIN flows :
    /\ ~Resuming
    /\ flows[i].op = "processAction"
    /\ flows[i].pc = "getAction"
    /\ \E action \in ActionOutcomes(flows[i].code) :
         Becomes(processAction_afterGetAction(StateNow, i, action))

PrepareTransactionAnswersProcessAction ==
  \E i \in DOMAIN flows :
    /\ ~Resuming
    /\ flows[i].op = "processAction"
    /\ flows[i].pc = "prepareTransaction"
    /\ \E throws \in BOOLEAN :
         Becomes(processAction_afterPrepareTransaction(StateNow, i, throws))

SubmitActionAnswersProcessAction ==
  \E i \in DOMAIN flows :
    /\ ~Resuming
    /\ flows[i].op = "processAction"
    /\ flows[i].pc = "submitAction"
    /\ \E throws \in BOOLEAN :
         Becomes(processAction_afterSubmitAction(StateNow, i, throws))

StatusArrivesProcessAction ==
  \E i \in DOMAIN flows :
    /\ ~Resuming
    /\ flows[i].op = "processAction"
    /\ flows[i].pc = "status"
    /\ \E event \in {"done", "throws"}
                      \cup (IF flows[i].statuses < MaxStatuses
                            THEN ServiceStatuses ELSE {}) :
         Becomes(processAction_afterStatus(StateNow, i, event))

GetResolvedActionAnswersProcessAction ==
  \E i \in DOMAIN flows :
    /\ ~Resuming
    /\ flows[i].op = "processAction"
    /\ flows[i].pc = "getResolvedAction"
    /\ \E throws \in BOOLEAN :
         Becomes(processAction_afterGetResolvedAction(StateNow, i, throws))

\* the core under headless operations next to an openModal that takes the
\* modal through its input, loading and error screens
NextHeadless ==
  \/ CallProcessAction
  \/ GetActionAnswersProcessAction
  \/ PrepareTransactionAnswersProcessAction
  \/ SubmitActionAnswersProcessAction
  \/ StatusArrivesProcessAction
  \/ GetResolvedActionAnswersProcessAction
  \/ CallCoreInit
  \/ CallOpenModal
  \/ OpenModalAfterShow
  \/ GetActionAnswersOpenModal
  \/ SubmitsCode
  \/ Retries
  \/ Closes
  \/ PressesKey

\* ------------------------------------------------------------------------
\* Service specification: calls of the ActionCodesService methods, each
\* with what the SDK client answers it
\* ------------------------------------------------------------------------

ServiceCall(op, from, code, timeoutMs, answer, outcome) ==
  [op |-> op, from |-> from, code |-> code, timeoutMs |-> timeoutMs,
   answer |-> answer, outcome |-> outcome]

\* the outcome of a call that has not ended
NotEnded == [ended |-> FALSE]

\* no call of the service has been made
ServiceInit == service = ServiceCall("new", "", "", Null, Null, Null)

\* the service never resolves the task that was submitted
NeverResolves == [never |-> TRUE]

\* the promise of the SDK client stays pending
Hangs == [hangs |-> TRUE]

\* the callers of submitAction and the timeoutMs each passes: createSession
\* (session.ts:67-80) and signTransaction (part_000:438-448) pass none,
\* another caller may pass one
SubmitCalls ==
  {[from |-> "createSession", timeoutMs |-> Null],
   [from |-> "signTransaction", timeoutMs |-> Null],
   [from |-> "caller", timeoutMs |-> Null],
   [from |-> "caller", timeoutMs |-> [ms |-> 100]]}

\* client.submitAndWait(code, payload, timeoutMs) of the SDK on a service
\* that answers, or that never resolves the task: with a timeoutMs it
\* rejects with a TaskTimeoutError when the time is over, without one it
\* waits on
submitAndWait(answer, timeoutMs) ==
  IF answer # NeverResolves THEN answer
  ELSE IF timeoutMs # Null
  THEN [throws |-> ThrownError("TaskTimeoutError", "Task lookup timed out")]
  ELSE Hangs

\* a call about to be made, with what the SDK client will answer it: the
\* client is called by getAction only with a code that is not blank
ServiceRequests ==
  {ServiceCall("getAction", "caller", code, Null,
               IF trim(code) = "" THEN Null ELSE answer, NotEnded) :
     code \in AdapterCodes, answer \in ClientGetActionAnswers}
    \cup {ServiceCall("submitAction", call.from, "c1", call.timeoutMs, answer,
                      NotEnded) :
            call \in SubmitCalls,
            answer \in ClientSubmitAnswers \cup {NeverResolves}}

CallGetAction ==
  /\ service.op = "getAction"
  /\ service.outcome = NotEnded
  /\ service' = [service EXCEPT
                   !.outcome = getAction(service.code, service.answer)]
  /\ UNCHANGED <<modalVars, sessionVars, adapterVars>>

\* submitAction goes on when the promise of client.submitAndWait settles
CallSubmitAction ==
  /\ service.op = "submitAction"
  /\ service.outcome = NotEnded
  /\ submitAndWait(service.answer, service.timeoutMs) # Hangs
  /\ service' = [service EXCEPT
                   !.outcome = submitAction(submitAndWait(service.answer,
                                                          service.timeoutMs))]
  /\ UNCHANGED <<modalVars, sessionVars, adapterVars>>

NextService ==
  \/ CallGetAction
  \/ CallSubmitAction

\* ------------------------------------------------------------------------
\* Specifications
\* ------------------------------------------------------------------------

Init == ModalInit /\ SessionInit /\ AdapterIdle /\ ServiceInit

\* the page after `new ActioWalletAdapter()`: the constructor creates the
\* core and calls its init(), which mounts the modal
InitAdapter ==
  /\ modalService = init(ModalServiceInit)
  /\ hist = [op |-> "new", arg |-> "", before |-> ModalServiceInit,
             prevOp |-> "new"]
  /\ SessionInit
  /\ AdapterIdle
  /\ ServiceInit

\* the modal service under any calls and UI events
Spec == Init /\ [][Next]_vars

\* the session service under any calls, answers and passage of time
SpecSession == Init /\ [][NextSession]_vars

\* the wallet adapter under any calls, answers, UI events and timers
SpecAdapter == InitAdapter /\ [][NextAdapter]_vars

\* the core, from its construction, under init, openModal, the service's
\* answers and UI events
SpecCore == Init /\ [][NextCore]_vars

SpecAutoConnect == InitAdapter /\ [][NextAutoConnect]_vars

\* the core, from its construction, under processAction next to init,
\* openModal and UI events
SpecHeadless == Init /\ [][NextHeadless]_vars

\* the action service under any answers of the SDK client
InitService ==
  /\ ModalInit
  /\ SessionInit
  /\ AdapterIdle
  /\ service \in ServiceRequests

SpecService == InitService /\ [][NextService]_vars

\* the calls whose answer, if an Error, carries one of the messages drawn
\* for every name
InitServiceFair ==
  /\ InitService
  /\ (service.answer # Null /\ "throws" \in DOMAIN service.answer
        /\ hasMessage(service.answer.throws)) =>
       service.answer.throws.message \in NamedMessages

\* the action service, where a call goes on once the promise it awaits has
\* settled
SpecServiceFair ==
  /\ InitServiceFair
  /\ [][NextService]_vars
  /\ WF_vars(CallGetAction)
  /\ WF_vars(CallSubmitAction)

\* ------------------------------------------------------------------------
\* Properties of the modal service
\* ------------------------------------------------------------------------

Pending(ms) == {p \in DOMAIN ms.promises : ms.promises[p].state = "pending"}

IsClose == hist.op = "modal-close" \/ (hist.op = "keydown" /\ hist.arg = "Escape")

\* C1: show() while a code-wait is pending creates no second waiter: every
\* promise of show() that is still pending is the one in the waiter slot, so
\* there is at most one outstanding wait and it is the one the next
\* code-submit or close completes.
C1_SingleWaiter ==
  \A p \in Pending(modalService) : modalService.currentPromise = p

\* C2: no resolution is lost: once the user has submitted a non-empty code
\* or closed the modal, no promise returned by an earlier show() is still
\* pending.
C2_NoLostResolution ==
  ((hist.op = "code-submit" /\ hist.arg # "") \/ IsClose)
    => Pending(modalService) = {}

\* C3: a modal-retry from the error screen switches to the input screen and
\* leaves the waiter slot and every promise as they were; a code submitted
\* right after the retry resolves the wait that was armed with that code.
C3_RetryKeepsWaitArmed ==
  /\ hist.op = "modal-retry" =>
       /\ getState(modalService).screen = "input"
       /\ modalService.currentPromise = hist.before.currentPromise
       /\ modalService.promises = hist.before.promises
  /\ (/\ hist.op = "code-submit"
      /\ hist.prevOp = "modal-retry"
      /\ hist.arg # ""
      /\ hist.before.currentPromise # 0) =>
       /\ modalService.promises[hist.before.currentPromise] =
            [state |-> "resolved", value |-> hist.arg]
       /\ modalService.currentPromise = 0

C3_Witness ==
  /\ hist.op = "code-submit"
  /\ hist.prevOp = "modal-retry"
  /\ hist.arg = "c2"
  /\ hist.before.currentPromise # 0
  /\ modalService.promises[hist.before.currentPromise].state = "resolved"

\* C4: a close (modal-close event or Escape key) while a code-wait is
\* pending rejects that wait with a "Modal closed" message, empties the
\* waiter slot and leaves the modal hidden on the input screen.
C4_CloseRejectsWait ==
  (IsClose /\ hist.before.currentPromise # 0) =>
     /\ modalService.promises[hist.before.currentPromise].state = "rejected"
     /\ includes(modalService.promises[hist.before.currentPromise].value,
                 "Modal closed")
     /\ modalService.currentPromise = 0
     /\ getState(modalService) = [visible |-> FALSE, screen |-> "input"]

C4_Witness ==
  /\ IsClose
  /\ hist.before.currentPromise # 0
  /\ getState(hist.before) = [visible |-> TRUE, screen |-> "error"]
  /\ modalService.promises[hist.before.currentPromise].value
       \in {"Modal closed: user", "Modal closed: escape"}

ScreenOf(op) ==
  IF op = "showLoading" THEN "loading"
  ELSE IF op = "showError" THEN "error" ELSE "success"

C6_ShowMakesVisible ==
  (hist.op = "show" /\ isAvailable(hist.before)) =>
     /\ getState(modalService).visible
     /\ getState(modalService).screen =
          (IF getState(hist.before).screen = "error" THEN "error" ELSE "input")

\* ------------------------------------------------------------------------
\* Properties of the session service
\* ------------------------------------------------------------------------

\* the six checks of the validation pipeline, in the documented order
Pipeline ==
  <<"exists", "expiry", "origin", "deserialize", "memo", "validate">>

\* whether a check fails on a stored session, for an origin at a time
CheckFails(check, session, origin, t) ==
  CASE check = "exists" -> session = Null
    [] check = "expiry" -> t > DateOf(session.expiresAt)
    [] check = "origin" -> session.origin /= origin
    [] check = "deserialize" ->
         session.signedTxBase64.encoding \notin {"legacy", "versioned"}
    [] check = "memo" -> session.signedTxBase64.memo = "none"
    [] check = "validate" -> ~session.signedTxBase64.valid

\* the error each failing check reports
ErrorOf(check, session) ==
  CASE check = "exists" -> "No session found"
    [] check = "expiry" -> "Session expired"
    [] check = "origin" -> "Session origin mismatch"
    [] check = "deserialize" ->
         IF session.signedTxBase64.encoding = "notBase64"
         THEN "Session validation failed: InvalidCharacterError"
         ELSE "Invalid transaction format"
    [] check = "memo" -> "No memo found"
    [] check = "validate" -> "Invalid transaction"

\* a validateSession call has just returned
Returned == ret.op \in {"validateSession", "validateSession:resumed"}

\* C7: every validateSession call that returns isValid=false on an existing
\* session leaves the storage empty.
C7_FailureClearsSession ==
  (Returned /\ ret.session # Null /\ ~ret.result.isValid)
    => localStorage = Null

\* C8: validateSession runs the checks in the order exists, expiry, origin,
\* deserialize, memo, validate and stops at the first that fails: the checks
\* it ran are a prefix of the pipeline, every check before the last one
\* passed, the last one failed and its error is the one reported; the
\* validator is awaited only after the five checks before it passed, and
\* "Invalid transaction" is reported exactly for its negative verdict.
C8_FirstFailureWins ==
  /\ ret.op = "validateSession" =>
       LET k == Len(ret.ran) IN
       /\ k \in 1..5
       /\ ret.ran = SubSeq(Pipeline, 1, k)
       /\ \A j \in 1..(k - 1) :
            ~CheckFails(Pipeline[j], ret.session, ret.origin, ret.at)
       /\ CheckFails(Pipeline[k], ret.session, ret.origin, ret.at)
       /\ ret.result = Result(FALSE, "", ErrorOf(Pipeline[k], ret.session))
  /\ ret.op = "validateSession:await" =>
       /\ ret.ran = Pipeline
       /\ \A j \in 1..5 :
            ~CheckFails(Pipeline[j], ret.session, ret.origin, ret.at)
  /\ ret.op = "validateSession:resumed" =>
       /\ ret.answer = "false" <=>
            ret.result = Result(FALSE, "", ErrorOf("validate", ret.session))
       /\ ret.result.isValid => ret.answer = "true"

C8_Witness ==
  /\ ret.op = "validateSession"
  /\ ret.session # Null
  /\ CheckFails("expiry", ret.session, ret.origin, ret.at)
  /\ CheckFails("origin", ret.session, ret.origin, ret.at)
  /\ CheckFails("deserialize", ret.session, ret.origin, ret.at)
  /\ ret.result.error = "Session expired"
  /\ ret.ran = <<"exists", "expiry">>

\* C9 as stated: whenever the stored origin differs from the origin passed,
\* the result is isValid=false with "Session origin mismatch" and the
\* storage is empty.
C9_MismatchAlwaysReported ==
  (ret.op = "validateSession" /\ ret.session # Null
     /\ ret.session.origin # ret.origin) =>
     /\ ret.result = Result(FALSE, "", "Session origin mismatch")
     /\ localStorage = Null

\* C9 amended: whenever the stored origin differs from the origin passed,
\* the result is isValid=false and the storage is empty, and the error is
\* "Session origin mismatch" unless the session has also expired, when it
\* is "Session expired"; no call goes on to the validator, and so none
\* returns valid, for an origin other than the stored one.
C9_MismatchNeverValid ==
  /\ (ret.op = "validateSession" /\ ret.session # Null
        /\ ret.session.origin # ret.origin) =>
        /\ ret.result =
             Result(FALSE, "",
                    IF DateOf(ret.session.expiresAt) < ret.at
                    THEN "Session expired" ELSE "Session origin mismatch")
        /\ localStorage = Null
  /\ ret.op = "validateSession:await" => ret.session.origin = ret.origin

C9_Witness ==
  /\ ret.op = "validateSession"
  /\ ret.session # Null
  /\ ret.session.origin = "site.com"
  /\ ret.origin = "other.com"
  /\ ret.session.signedTxBase64 = Tx("legacy", "Addr1", TRUE)
  /\ DateOf(ret.session.expiresAt) > ret.at
  /\ ret.result = Result(FALSE, "", "Session origin mismatch")
  /\ localStorage = Null

\* C10: when the stored session's expiresAt is before the current time,
\* validateSession returns isValid=false with "Session expired" and the
\* storage is empty; no call goes on to the validator with such a session.
C10_ExpiredRejected ==
  /\ (ret.op = "validateSession" /\ ret.session # Null
        /\ DateOf(ret.session.expiresAt) < ret.at) =>
        /\ ret.result = Result(FALSE, "", "Session expired")
        /\ localStorage = Null
  /\ ret.op = "validateSession:await" =>
       DateOf(ret.session.expiresAt) >= ret.at

C10_Witness ==
  /\ ret.op = "validateSession"
  /\ ret.session # Null
  /\ ret.session.origin = ret.origin
  /\ ret.session.signedTxBase64 = Tx("versioned", "Addr2", TRUE)
  /\ DateOf(ret.session.expiresAt) = ret.at - 1
  /\ ret.result = Result(FALSE, "", "Session expired")
  /\ localStorage = Null

\* C11: validateSession accepts a session only while the current time is
\* strictly before its expiresAt: no call gets past the expiry check, on to
\* the validator whose positive verdict makes it return isValid=true, when
\* now >= expiresAt, the instant now = expiresAt included.
C11_AcceptedOnlyBeforeExpiry ==
  ret.op = "validateSession:await" =>
    ret.at < DateOf(ret.session.expiresAt)

\* the stored session is the one the call that has just returned validated
StoredIsValidated ==
  /\ localStorage # Null
  /\ getStoredSession(localStorage).signedTxBase64 = ret.session.signedTxBase64

\* the validateSession(origin) call that follows immediately, up to its
\* return or its await of the validator
SecondCall(origin) == validateSession_begin(localStorage, origin, now)

\* C12: two validateSession calls in immediate succession: after a call
\* that returned valid for the stored session, the next call for that
\* session's origin passes the same checks on the same session and leaves
\* the verdict to the validator again; after a call that failed on an
\* existing session, the next call for the same origin returns
\* "No session found".
C12_SecondCallAfterFirst ==
  /\ (/\ ret.op = "validateSession:resumed"
      /\ ret.result.isValid
      /\ StoredIsValidated
      /\ ~isExpired(DateOf(getStoredSession(localStorage).expiresAt), now)) =>
       LET second == SecondCall(getStoredSession(localStorage).origin)
       IN  /\ ~second.done
           /\ second.ran = Pipeline
           /\ second.storage = localStorage
  /\ (/\ ret.op = "validateSession"
      /\ ret.session # Null
      /\ ~ret.result.isValid) =>
       SecondCall(ret.origin).result = Result(FALSE, "", "No session found")
  /\ (/\ ret.op = "validateSession:resumed"
      /\ ~ret.result.isValid) =>
       \A origin \in Origins :
         SecondCall(origin).result = Result(FALSE, "", "No session found")

\* what the validator may answer for a transaction: its verdict, or a throw
ValidatorMayAnswer(signedTx) ==
  {"throws", IF signedTx.valid THEN "true" ELSE "false"}

\* the result of a validateSession(origin) call made now and run to its
\* return, the validator answering as given if it is asked
ValidateAfter(origin, answer) ==
  LET second == SecondCall(origin)
  IN  IF second.done THEN second.result
      ELSE validateSession_resume(
             second.storage, getStoredSession(localStorage).signedTxBase64,
             answer).result

\* a createSession call has just succeeded
Created == ret.op = "createSession" /\ ret.created.ok

SubmissionIncomplete ==
  /\ ret.submitted # [throws |-> TRUE]
  /\ (ret.submitted.status # "completed" \/ ret.submitted.result = Null)

\* what createSession would return if called now with these inputs
CreateNow(code, origin, action, submitted) ==
  createSession(localStorage, code, origin, action, submitted, now)

\* C14: a createSession call whose submission comes back with a status
\* other than "completed" or without a payload fails with the connection
\* error "Failed to create session: ..." and leaves the storage as it was;
\* a call writes the storage only if it succeeds, which it does only for a
\* "completed" submission with a payload, and then it stores that payload.
\* Stated of the call that has just ended and, for the storage it found,
\* of every call that may come next.
C14_CreateNeedsCompletedPayload ==
  /\ ret.op = "createSession" =>
       /\ SubmissionIncomplete =>
            /\ ~ret.created.ok
            /\ ret.created.error =
                 "Failed to create session: Failed to create session"
       /\ ret.created.ok =>
            /\ ret.submitted # [throws |-> TRUE]
            /\ ret.submitted.status = "completed"
            /\ ret.submitted.result \in Payloads
            /\ localStorage # Null
            /\ getStoredSession(localStorage).signedTxBase64 =
                 ret.submitted.result
  /\ \A code \in {" ", "c1"}, origin \in Origins :
       \A action \in ActionOutcomes(code) :
       \A submitted \in (IF action = [throws |-> TRUE]
                         THEN {[throws |-> TRUE]} ELSE SubmitOutcomes) :
         LET c == CreateNow(code, origin, action, submitted)
         IN  /\ ~c.ok => c.storage = localStorage
             /\ c.ok =>
                  /\ submitted # [throws |-> TRUE]
                  /\ submitted.status = "completed"
                  /\ submitted.result \in Payloads
                  /\ getStoredSession(c.storage).signedTxBase64 =
                       submitted.result

C14_Witness ==
  /\ ret.op = "createSession"
  /\ ret.submitted # [throws |-> TRUE]
  /\ ret.submitted.status = "pending"
  /\ ret.submitted.result = Tx("legacy", "Addr1", TRUE)
  /\ ~ret.created.ok
  /\ ret.created.error = "Failed to create session: Failed to create session"
  /\ localStorage # Null
  /\ getStoredSession(localStorage).signedTxBase64 = Tx("versioned", "Addr2", TRUE)

\* ------------------------------------------------------------------------
\* Properties of the wallet adapter
\* ------------------------------------------------------------------------

SessionErrors ==
  {"Session is not valid. Please reconnect your wallet.",
   "Session wallet does not match action's intended recipient."}

\* C15: signTransaction calls submitAction only after validateSession
\* returned valid for the page's origin with a public key equal to the
\* intendedFor of the action the code resolved to; when the session check
\* or the cross-check fails, the operation ends by throwing, has submitted
\* nothing and is over (nothing of it is left in flight to retry).
C15_SubmitsOnlyForSessionKey ==
  /\ out.op = "signTransaction:submitAction" =>
       /\ out.validation.isValid
       /\ out.validation.publicKey = out.intendedFor
  /\ (out.op = "signTransaction" /\ out.error \in SessionErrors) =>
       /\ out.outcome = "threw"
       /\ ~out.submitted

\* a connect() call has just returned the stored session's key
ConnectedFromSession ==
  /\ out.op = "connect"
  /\ out.outcome = "returned"
  /\ out.emitted = <<"connect">>
  /\ ~out.isNewSession

\* C16: connect() over connectWallet with a valid stored session for the
\* page's origin returns that session's public key with isNewSession=false
\* without touching the modal: the step that calls validateSession and the
\* step that returns leave the modal (visibility, screen, waiter slot and
\* promises) as it was, set no timer to hide it, and the operation makes no
\* submission.
C16_ValidSessionConnectsSilently ==
  [][/\ ConnectedFromSession' =>
          /\ modalService' = modalService
          /\ adapter'.timers = adapter.timers
          /\ ~out'.submitted
          /\ out'.validation.isValid
          /\ adapter'._publicKey = PublicKey(out'.validation.publicKey)
          /\ localStorage' = localStorage
     /\ (/\ Len(flows') = Len(flows) + 1
         /\ flows'[Len(flows')].op = "connect"
         /\ flows'[Len(flows')].pc = "validateSession") =>
          /\ modalService' = modalService
          /\ localStorage' = localStorage
    ]_vars

C16_Witness ==
  /\ ConnectedFromSession
  /\ adapter._publicKey = PublicKey("Addr2")
  /\ getState(modalService) = [visible |-> TRUE, screen |-> "input"]
  /\ modalService.currentPromise # 0

\* C17: a connect() whose wait for the code is rejected because the user
\* closed the modal (close button or Escape) does not throw: it returns,
\* having emitted 'disconnect' and no 'connect', and _connecting is false.
C17_ClosedConnectDisconnects ==
  (out.op = "connect" /\ includes(out.error, "Modal closed")) =>
     /\ out.outcome = "returned"
     /\ out.emitted = <<"disconnect">>
     /\ ~adapter._connecting
     /\ \A i \in DOMAIN flows : flows[i].op # "connect"

C17_Witness ==
  /\ out.op = "connect"
  /\ out.error = "Modal closed: user"
  /\ out.outcome = "returned"
  /\ out.emitted = <<"disconnect">>
  /\ ~adapter._connecting

\* C18: a signTransaction whose wait for the code is rejected because the
\* user closed the modal treats the cancellation as a non-error outcome:
\* it shows no error screen for it and leaves the modal hidden.
C18_ClosedSignShowsNoError ==
  (out.op = "signTransaction" /\ includes(out.error, "Modal closed")) =>
     /\ getState(modalService).screen # "error"
     /\ ~getState(modalService).visible

\* C20: disconnect() can be called in every state (once the running
\* continuation, if any, has ended) and always returns: afterwards the
\* storage holds no session, validateSession reports "No session found" for
\* every origin, the adapter's publicKey is null, 'disconnect' was emitted,
\* and clearing the store again changes nothing.
C20_DisconnectAlwaysClears ==
  /\ ~Resuming => ENABLED CallDisconnect
  /\ out.op = "disconnect" =>
       /\ out.outcome = "returned"
       /\ out.emitted = <<"disconnect">>
       /\ localStorage = Null
       /\ \A origin \in Origins :
            validateSession_begin(localStorage, origin, now).result =
              Result(FALSE, "", "No session found")
       /\ adapter._publicKey = Null
       /\ clearSession(localStorage) = localStorage
       /\ disconnect(StateNow).storage = localStorage
       /\ disconnect(StateNow).adapter = adapter

C20_Witness ==
  /\ out.op = "disconnect"
  /\ localStorage = Null
  /\ adapter._publicKey = Null
  /\ \E i \in DOMAIN flows :
       flows[i].op = "signTransaction" /\ flows[i].pc = "validateSession"

\* ------------------------------------------------------------------------
\* Properties of the core's modal flows
\* ------------------------------------------------------------------------

\* connectWallet or openModal has just rethrown an error it caught
Rethrown == out.atRethrow # Null

\* C19 as stated, for every modal, mounted or not: an error other than
\* "Modal closed" is on a visible error screen when it is rethrown, a
\* "Modal closed" error leaves the modal hidden without an error screen,
\* and the error thrown is the one caught.
C19_ErrorShownBeforeEveryRethrow ==
  Rethrown =>
     /\ out.error = out.cause
     /\ IF includes(out.cause, "Modal closed")
        THEN /\ ~out.atRethrow.visible
             /\ out.atRethrow.screen # "error"
        ELSE /\ out.atRethrow.visible
             /\ out.atRethrow.screen = "error"

\* C19, amended: when connectWallet or openModal, on a mounted modal, rethrows an
\* error other than "Modal closed", the modal is visible on the error
\* screen at the throw; when it rethrows a "Modal closed" error the modal
\* is hidden and not on the error screen; in both cases the error thrown
\* is the one caught.
C19_ErrorShownBeforeRethrow ==
  (Rethrown /\ isAvailable(modalService)) =>
     /\ out.error = out.cause
     /\ IF includes(out.cause, "Modal closed")
        THEN /\ ~out.atRethrow.visible
             /\ out.atRethrow.screen # "error"
        ELSE out.atRethrow = [visible |-> TRUE, screen |-> "error"]

C19_Witness ==
  /\ Rethrown
  /\ out.op = "openModal"
  /\ out.cause = "Action did not complete successfully."
  /\ out.error = out.cause
  /\ out.atRethrow = [visible |-> TRUE, screen |-> "error"]
  /\ getState(modalService) = out.atRethrow

\* ------------------------------------------------------------------------
\* Properties of auto-connect
\* ------------------------------------------------------------------------

\* the modal after each step autoConnect may take next from this state
AutoConnectStepsLeaveModal ==
  /\ autoConnect_call(StateNow, now).ms = modalService
  /\ \A i \in DOMAIN flows :
       flows[i].op = "autoConnect" =>
         \A answer \in {"true", "false", "throws"} :
           IF flows[i].pc = "isWalletConnected"
           THEN autoConnect_afterIsWalletConnected(StateNow, i, answer, now).ms
                  = modalService
           ELSE autoConnect_afterGetConnectedWallet(StateNow, i, answer).ms
                  = modalService

\* C21: no step of autoConnect (isWalletConnected, getConnectedWallet)
\* changes the modal's visibility, screen or waiter; autoConnect always
\* returns and never throws; it emits 'connect' only when the session it
\* read from the storage validated, and then publicKey is that session's
\* key.
C21_AutoConnectSilent ==
  /\ AutoConnectStepsLeaveModal
  /\ out.op = "autoConnect" =>
       /\ out.outcome = "returned"
       /\ out.emitted \in {<<>>, <<"connect">>}
       /\ out.emitted = <<"connect">> =>
            /\ out.validation.isValid
            /\ isPublicKey(out.validation.publicKey)
            /\ adapter._publicKey = PublicKey(out.validation.publicKey)

C21_Witness ==
  /\ out.op = "autoConnect"
  /\ out.emitted = <<"connect">>
  /\ adapter._publicKey = PublicKey("Addr1")
  /\ localStorage # Null
  /\ getStoredSession(localStorage).signedTxBase64 = Tx("legacy", "Addr1", TRUE)
  /\ getState(modalService) = [visible |-> TRUE, screen |-> "success"]

\* ------------------------------------------------------------------------
\* Properties of the action service
\* ------------------------------------------------------------------------

\* a call of the service has ended
Ended(op) == service.op = op /\ service.outcome # NotEnded

\* the call ended by throwing an error of this class
ThrewClass(class) ==
  /\ service.outcome.threw
  /\ "class" \in DOMAIN service.outcome.value
  /\ service.outcome.value.class = class

\* the reason getAction finds a code or its action invalid for, "" if none
InvalidReason(code, answer) ==
  IF trim(code) = "" THEN "Code cannot be empty"
  ELSE IF "returns" \notin DOMAIN answer THEN ""
  ELSE IF answer.returns = Null THEN "Action not found"
  ELSE IF answer.returns.intendedFor = ""
  THEN "Action missing intended recipient"
  ELSE IF answer.returns.intendedFor \notin PublicKeys
  THEN "Invalid recipient public key"
  ELSE ""

\* C22: a getAction whose code is empty or blank, or whose client returned
\* no action, an action without intendedFor or with an intendedFor that is
\* no public key, fails with an InvalidActionCodeError naming that reason,
\* never with a NetworkError; a getAction fails with a NetworkError only
\* when the client itself threw.
C22_InvalidCodeNeverNetworkError ==
  Ended("getAction") =>
    LET reason == InvalidReason(service.code, service.answer)
    IN  /\ reason # "" =>
             /\ ThrewClass("InvalidActionCodeError")
             /\ service.outcome.value.code = "INVALID_ACTION_CODE"
             /\ service.outcome.value.message = "Invalid action code: " \o reason
        /\ ThrewClass("NetworkError") =>
             /\ trim(service.code) # ""
             /\ "throws" \in DOMAIN service.answer

C22_Witness ==
  /\ Ended("getAction")
  /\ service.code = "c1"
  /\ service.answer = [returns |-> [intendedFor |-> "notAKey"]]
  /\ ThrewClass("InvalidActionCodeError")
  /\ service.outcome.value.message
       = "Invalid action code: Invalid recipient public key"

\* the title the error screen has for the category of a rule of the
\* classifier, the rule told by the message it gave the NetworkError; the
\* rule of a failed fetch and the fallback give the same message
TitleOfRule(message) ==
  CASE message = CorsMessage -> {"Connection Blocked"}
    [] message = ConnectionMessage -> {"Connection Failed", "Connection Error"}
    [] message = TimeoutMessage -> {"Request Timeout"}
    [] message = UnauthorizedMessage -> {"Authorization Failed"}
    [] message = NotFoundMessage -> {"Action Not Found"}
    [] message = ServerMessage -> {"Service Unavailable"}
    [] OTHER -> {"Connection Error"}

\* C23: the NetworkError a failed getAction throws carries the sub-code of
\* the first rule its cause matched, so the title and the hint the error
\* screen selects by that sub-code are those of the rule's category: a
\* CORS failure is titled "Connection Blocked", a timeout "Request
\* Timeout", a 404 "Action Not Found", and so on.
C23_SubCodeIdentifiesRule ==
  (Ended("getAction") /\ ThrewClass("NetworkError")) =>
    /\ getErrorTitle(service.outcome.value.networkErrorCode)
         \in TitleOfRule(service.outcome.value.message)
    /\ service.outcome.value.message = CorsMessage =>
         getHelpText(service.outcome.value.networkErrorCode)
           = getHelpText("CORS_ERROR")
    /\ service.outcome.value.message = TimeoutMessage =>
         getHelpText(service.outcome.value.networkErrorCode)
           = getHelpText("TIMEOUT_ERROR")

\* the classes of the typed errors (errors/index.ts)
TypedErrors ==
  {"NetworkError", "InvalidActionCodeError", "ActionProcessingError"}

\* the call ended by throwing one of the typed errors
ThrewTyped ==
  /\ service.outcome.threw
  /\ "class" \in DOMAIN service.outcome.value
  /\ service.outcome.value.class \in TypedErrors

\* C24: whatever value the SDK client throws, the classifier returns a
\* NetworkError and does not throw: a getAction whose client threw fails
\* with that NetworkError, its cause kept as originalError, and a getAction
\* or a submitAction that fails, fails with a typed error.
C24_ClassifierTotal ==
  /\ (Ended("getAction") /\ trim(service.code) # ""
        /\ "throws" \in DOMAIN service.answer) =>
       /\ ThrewClass("NetworkError")
       /\ service.outcome.value.originalError = service.answer.throws
  /\ ((Ended("getAction") \/ Ended("submitAction")) /\ service.outcome.threw) =>
       ThrewTyped

\* C25: a submitAction whose client threw a TaskTimeoutError fails with the
\* ActionProcessingError of phase TASK_TIMEOUT, one whose client threw a
\* TaskNotFoundError with that of phase TASK_NOT_FOUND; for every other
\* thrown value it fails with the ActionProcessingError of phase
\* SUBMISSION_FAILED whose originalError is the classifier's NetworkError;
\* it never fails with anything else.
C25_SubmitFailuresTyped ==
  (Ended("submitAction") /\ "throws" \in DOMAIN service.answer) =>
    LET error == service.answer.throws
        name == IF "name" \in DOMAIN error THEN error.name ELSE ""
    IN  /\ ThrewClass("ActionProcessingError")
        /\ service.outcome.value.phase
             = CASE name = "TaskTimeoutError" -> "TASK_TIMEOUT"
                 [] name = "TaskNotFoundError" -> "TASK_NOT_FOUND"
                 [] OTHER -> "SUBMISSION_FAILED"
        /\ name \notin {"TaskTimeoutError", "TaskNotFoundError"} =>
             /\ service.outcome.value.originalError.class = "NetworkError"
             /\ service.outcome.value.originalError.originalError = error

\* C26: a submitAction on a service that never resolves the task, called
\* with a timeout or awaited by createSession or signTransaction,
\* eventually ends, by rejecting with the ActionProcessingError of a
\* timeout, so that the flow awaiting it ends with an error.
C26_SubmitEventuallyTimesOut ==
  (/\ service.op = "submitAction"
   /\ service.answer = NeverResolves
   /\ (service.timeoutMs # Null
         \/ service.from \in {"createSession", "signTransaction"}))
    ~> (/\ Ended("submitAction")
        /\ ThrewClass("ActionProcessingError")
        /\ service.outcome.value.phase = "TASK_TIMEOUT")

\* ------------------------------------------------------------------------
\* Properties of the flows' calls of the action service
\* ------------------------------------------------------------------------

\* the modal handed over at most one code, getAction was called at most
\* once for it, and submitAction at most once after that getAction
CalledOnce(calls) ==
  /\ calls.codes <= 1
  /\ calls.getActions <= calls.codes
  /\ calls.submitActions <= calls.getActions

\* C27: a connect or a signTransaction, in flight or ended, has taken at
\* most one code from the modal, has called getAction at most once, for
\* that code, and submitAction at most once, after that getAction: no call
\* of the service is repeated inside an operation.
C27_NoAutomaticRetry ==
  /\ \A i \in DOMAIN flows :
       flows[i].op \in {"connect", "signTransaction"} =>
         CalledOnce(Calls(flows[i]))
  /\ out.op \in {"connect", "signTransaction"} => CalledOnce(out.calls)

C27_Witness ==
  /\ out.op = "signTransaction"
  /\ out.outcome = "threw"
  /\ out.error = "Failed to submit action"
  /\ out.calls = [codes |-> 1, getActions |-> 1, submitActions |-> 1]
  /\ getState(modalService) = [visible |-> TRUE, screen |-> "error"]

\* ------------------------------------------------------------------------
\* Properties of the headless operation
\* ------------------------------------------------------------------------

\* what the service may answer a processAction suspended at pc
ProcessActionAnswers(flow) ==
  CASE flow.pc = "getAction" -> ActionOutcomes(flow.code)
    [] flow.pc = "status" -> {"done", "throws"} \cup ServiceStatuses
    [] OTHER -> BOOLEAN

\* the state after a processAction suspended at pc has got the answer
ProcessActionStep(i, answer) ==
  CASE flows[i].pc = "getAction" ->
         processAction_afterGetAction(StateNow, i, answer)
    [] flows[i].pc = "prepareTransaction" ->
         processAction_afterPrepareTransaction(StateNow, i, answer)
    [] flows[i].pc = "submitAction" ->
         processAction_afterSubmitAction(StateNow, i, answer)
    [] flows[i].pc = "status" ->
         processAction_afterStatus(StateNow, i, answer)
    [] flows[i].pc = "getResolvedAction" ->
         processAction_afterGetResolvedAction(StateNow, i, answer)

\* C28: from every reachable state, whatever the modal shows and whoever
\* waits on it, the start of processAction(code) and every step it takes
\* up to its return or its throw leave the modal service as it is:
\* visibility, screen, waiter slot and promises.
C28_ProcessActionLeavesModal ==
  /\ \A code \in AdapterCodes :
       processAction_call(StateNow, code).ms = modalService
  /\ \A i \in DOMAIN flows :
       flows[i].op = "processAction" =>
         \A answer \in ProcessActionAnswers(flows[i]) :
           ProcessActionStep(i, answer).ms = modalService

C28_Witness ==
  /\ out.op = "processAction"
  /\ out.outcome = "threw"
  /\ out.error = "Action processing failed"
  /\ getState(modalService) = [visible |-> TRUE, screen |-> "input"]
  /\ modalService.currentPromise # 0

\* ------------------------------------------------------------------------
\* Properties of the modal's visibility
\* ------------------------------------------------------------------------

\* the calls of the modal service that show the modal
ShowingCalls == {"show", "showLoading", "showError", "showSuccess"}

Hidden == [visible |-> FALSE, screen |-> "input"]

\* C29: a new modal service is hidden on the input screen; after init()
\* the modal is mounted, hidden, on the input screen; and a step that
\* leaves the modal visible having found it hidden is a call of show(),
\* showLoading(), showError() or showSuccess(): no other call and no UI
\* event makes a hidden modal visible.
C29_VisibleOnlyByShowing ==
  /\ hist.op = "new" => getState(modalService) = Hidden
  /\ hist.op = "init" =>
       /\ isAvailable(modalService)
       /\ getState(modalService) = Hidden
  /\ (getState(modalService).visible /\ ~getState(hist.before).visible) =>
       hist.op \in ShowingCalls

C29_Witness ==
  /\ hist.prevOp = "init"
  /\ hist.op = "showLoading"
  /\ isAvailable(hist.before)
  /\ getState(hist.before) = Hidden
  /\ getState(modalService) = [visible |-> TRUE, screen |-> "loading"]

\* ------------------------------------------------------------------------
\* Properties of the code-wait
\* ------------------------------------------------------------------------

\* C30: whenever the modal is visible on the input screen and no flow is
\* about to resume, a code-wait is pending: the waiter slot holds a pending
\* promise of show() and a flow is suspended on it, so that a code the
\* user submits reaches that flow.
C30_InputScreenHasWaiter ==
  (/\ ~Resuming
   /\ getState(modalService) = [visible |-> TRUE, screen |-> "input"]) =>
    /\ modalService.currentPromise # 0
    /\ modalService.promises[modalService.currentPromise].state = "pending"
    /\ \E i \in DOMAIN flows :
         /\ flows[i].pc = "show"
         /\ flows[i].p = modalService.currentPromise

\* ------------------------------------------------------------------------
\* Properties of the adapter's connection state
\* ------------------------------------------------------------------------

\* the connect() calls in flight
ConnectsInFlight == {i \in DOMAIN flows : flows[i].op = "connect"}

\* C31: connect() is single-flight. _connecting is true exactly while one
\* connect() call is in flight, no two are ever in flight, it is false once
\* a connect() has ended (returned, thrown, or cancelled by closing the
\* modal), and a connect() called while it is true returns leaving the
\* modal, its waiter, the flows in flight, the storage and the adapter as
\* they were and emits no event
C31_ConnectSingleFlight ==
  /\ Cardinality(ConnectsInFlight) <= 1
  /\ adapter._connecting <=> Cardinality(ConnectsInFlight) = 1
  /\ out.op = "connect" => ~adapter._connecting
  /\ adapter._connecting =>
       LET st == connect_call(StateNow, now)
       IN  /\ st.ms = modalService
           /\ st.storage = localStorage
           /\ st.adapter = adapter
           /\ st.flows = flows
           /\ st.out.outcome = "returned"
           /\ st.out.emitted = <<>>
  /\ out.op = "connect:connecting" => adapter._connecting /\ out.emitted = <<>>

\* a connect() was called, and returned at once, while another waits for
\* the code of the visible modal
C31_Witness ==
  /\ out.op = "connect:connecting"
  /\ \E i \in DOMAIN flows :
       /\ flows[i].op = "connect"
       /\ flows[i].pc = "show"
       /\ modalService.promises[flows[i].p].state = "pending"
  /\ getState(modalService) = [visible |-> TRUE, screen |-> "input"]

\* C32: when a signTransaction has failed after the stored session
\* validated, the adapter's publicKey, if not null, is the key bound to
\* that session, the last one successfully validated
C32_FailedSignKeepsPublicKey ==
  (/\ out.op = "signTransaction"
   /\ out.outcome = "threw"
   /\ out.validation.isValid
   /\ adapter._publicKey # Null)
    => adapter._publicKey = PublicKey(out.validation.publicKey)

\* C33: signTransaction returns a signed transaction only when the
\* submission it awaited ended with status 'completed'
C33_SignedOnlyWhenCompleted ==
  (out.op = "signTransaction" /\ out.outcome = "returned")
    => out.submission.status = "completed"

\* C34: in the state in which the adapter has emitted 'disconnect', from
\* disconnect() or from a connect() cancelled by closing the modal, its
\* publicKey is null
C34_DisconnectEmittedWithoutKey ==
  (\E k \in DOMAIN out.emitted : out.emitted[k] = "disconnect")
    => adapter._publicKey = Null

\* ------------------------------------------------------------------------
\* Storage specification: createSession and clearSession calls over time
\* ------------------------------------------------------------------------

NextStorage ==
  \/ Tick
  \/ CallCreateSession
  \/ CallClearSession

SpecStorage == Init /\ [][NextStorage]_vars

\* ------------------------------------------------------------------------
\* Properties of the session storage under createSession
\* ------------------------------------------------------------------------

\* the ways a createSession call fails: getAction throws, submitAction
\* throws, the status is not "completed", the payload is missing
CreateFails(action, submitted) ==
  \/ action = [throws |-> TRUE]
  \/ submitted = [throws |-> TRUE]
  \/ submitted.status # "completed"
  \/ submitted.result = Null

\* C35: a createSession call that fails, at whichever step, leaves the
\* storage exactly as it found it: a session stored before the call is read
\* back unchanged after it. Stated, for the storage of every reachable
\* state, of every call that may come next.
C35_FailedCreateKeepsStorage ==
  \A code \in {" ", "c1"}, origin \in Origins :
    \A action \in ActionOutcomes(code) :
    \A submitted \in (IF action = [throws |-> TRUE]
                      THEN {[throws |-> TRUE]} ELSE SubmitOutcomes) :
      LET c == CreateNow(code, origin, action, submitted)
      IN  CreateFails(action, submitted) =>
            /\ ~c.ok
            /\ c.storage = localStorage
            /\ localStorage # Null =>
                 /\ c.storage # Null
                 /\ getStoredSession(c.storage) = getStoredSession(localStorage)

\* a createSession call has failed because submitAction threw, and the
\* session stored by an earlier call, not yet expired, is still in storage
C35_Witness ==
  /\ ret.op = "createSession"
  /\ ~ret.created.ok
  /\ ret.created.error = "Failed to create session: Failed to submit action"
  /\ localStorage # Null
  /\ ~isExpired(DateOf(getStoredSession(localStorage).expiresAt), now)

\* ------------------------------------------------------------------------
\* Properties of the modal's keyboard handling and removal
\* ------------------------------------------------------------------------

\* C36: an Escape key press while the modal is hidden changes nothing: the
\* modal's visibility and screen, the waiter slot and every promise of
\* show() are as they were before the key press
C36_EscapeWhileHiddenIgnored ==
  (/\ hist.op = "keydown"
   /\ hist.arg = "Escape"
   /\ hist.before.modal # Null
   /\ ~getState(hist.before).visible)
    => /\ getState(modalService) = getState(hist.before)
       /\ modalService.currentPromise = hist.before.currentPromise
       /\ modalService.promises = hist.before.promises

\* ------------------------------------------------------------------------
\* Properties of the status-stream flows
\* ------------------------------------------------------------------------

\* C37: when the service reports the status "cancelled" to a flow reading
\* the status stream, the flow ends there: it reads no further status, it
\* throws "Action was cancelled" and the modal is left hidden. Stated of
\* every flow that is reading the stream and of the status arriving next.
C37_CancelledEndsFlowHidden ==
  \A i \in DOMAIN flows :
    (flows[i].op = "openModal" /\ flows[i].pc = "status") =>
      LET st == openModal_afterStatus(StateNow, i, "cancelled")
      IN  /\ st.flows = Without(flows, i)
          /\ st.out.op = "openModal"
          /\ st.out.outcome = "threw"
          /\ st.out.error = "Action was cancelled"
          /\ ~getState(st.ms).visible

\* what the status stream may hand a flow that reads it
StreamEvents == ServiceStatuses \cup {"done", "throws"}

\* C38: headless processAction and the UI flow agree on the outcome. For a
\* flow reading the status stream and every event the stream may hand it
\* next, processAction and processActionWithUI both go on reading, both go
\* on to getResolvedAction, or both throw; neither returns a result from
\* there, since no "completed" status has been seen; and once
\* getResolvedAction answers both return for the same publicKey or both
\* throw.
C38_HeadlessAgreesWithUI ==
  \A i \in DOMAIN flows :
    /\ (flows[i].op = "processAction" /\ flows[i].pc = "status") =>
         \A event \in StreamEvents :
           LET headless == processAction_afterStatus(StateNow, i, event)
               ui == openModal_afterStatus(StateNow, i, event)
           IN  /\ headless.out.outcome = ui.out.outcome
               /\ headless.out.outcome # "returned"
               /\ headless.out.outcome = "" =>
                    headless.flows[i].pc = ui.flows[i].pc
    /\ (flows[i].op = "processAction" /\ flows[i].pc = "getResolvedAction") =>
         \A throws \in BOOLEAN :
           LET headless == processAction_afterGetResolvedAction(StateNow, i, throws)
               ui == openModal_afterGetResolvedAction(StateNow, i, throws)
           IN  /\ headless.out.outcome = ui.out.outcome
               /\ headless.out.intendedFor = ui.out.intendedFor

\* C39: unmount() (which destroy() calls) and init() on a mounted modal
\* reject the pending code-wait with a "Modal closed" reason, so that no
\* promise of show() is still pending once the modal is gone; after
\* unmount() isAvailable() is false, and it only becomes true by init()
C39_RemovalLeavesNoWaiter ==
  /\ (hist.op \in {"unmount", "init"} /\ isAvailable(hist.before)) =>
       /\ Pending(modalService) = {}
       /\ hist.before.currentPromise # 0 =>
            /\ modalService.promises[hist.before.currentPromise].state
                 = "rejected"
            /\ includes(modalService.promises[hist.before.currentPromise].value,
                        "Modal closed")
       /\ modalService.currentPromise = 0
       /\ hist.op = "unmount" => ~isAvailable(modalService)
  /\ (isAvailable(modalService) /\ ~isAvailable(hist.before)) =>
       hist.op = "init"

====
